---- MODULE Spec2Model ----
(***************************************************************************)
(* Model of egormak/k8s-controller: the Deployment reconciler, the         *)
(* informer-backed cache of the kubernetes client, the event dispatcher    *)
(* and the HTTP read path.                                                 *)
(***************************************************************************)
EXTENDS Integers, Sequences, FiniteSets, TLC

(***************************************************************************)
(* Part I.  DeploymentReconciler (internal/infrastructure/controller)      *)
(***************************************************************************)

VARIABLES
    rObject,      \* rObject[id]: the Deployment exists in the cluster
    rService,     \* DeploymentReconciler.resourceService is non-nil
    rQueue,       \* rQueue[id]: why the identity sits in the work queue
    rTimer,       \* rTimer[id]: the delayed requeue pending for the identity
    rLast,        \* rLast[id]: the last Reconcile attempt of the identity
    stopped,      \* ControllerRuntime.stopped: Stop has closed stopCh
    rSeen,        \* rSeen[id]: the Deployment is as the last attempt observed it
    rApplied      \* rApplied[id]: the business step has processed that state

rvars == <<rObject, rService, rQueue, rTimer, rLast, stopped, rSeen, rApplied>>

VARIABLES
    clientset,          \* kubeClient.clientset is non-nil (Connect succeeded)
    eventHandler,       \* kubeClient.eventHandler is non-nil
    informerFactories,  \* kubeClient.informerFactories: namespace -> factory, 0 = none
    factories,          \* every informer factory created so far, by creation order
    ctxDone,            \* the contexts that are cancelled or past their deadline
    call,               \* the InitializeInformers call in progress, if any
    returned,           \* what the last finished InitializeInformers call returned
    upstream,           \* the Deployments the cluster holds, per namespace
    log,                \* the cluster's change notifications, per namespace, in order
    delivered,          \* the ResourceEvents the handler has received, in order
    response,           \* the last response of the deployments read endpoint
    routes              \* the HTTP routes are registered

VARIABLES
    subs                \* the handler registrations made by startInformers, in order:
                        \* each with the notifications queued for its listener and
                        \* one record per notification its handler functions processed

dvars == <<subs>>

cvars == <<clientset, eventHandler, informerFactories, factories, ctxDone, call,
           returned, upstream, log, delivered, response, routes, dvars>>

VARIABLES
    arg,                \* the input a function of the program is applied to
    result              \* what the function returned for it

pvars == <<arg, result>>

VARIABLES
    loaded,             \* the configuration the process was started with
    controller,         \* the KubernetesController built by NewKubernetesController
    run                 \* KubernetesController.Run and the goroutines it starts

kvars == <<loaded, controller, run>>

VARIABLES
    access              \* the accesses to c.informerFactories in progress

avars == <<access>>

VARIABLES
    stops,              \* the calls of KubernetesController.Stop made so far
    stopping            \* the calls of ControllerRuntime.Stop in progress

svars == <<stops, stopping>>

nvars == <<pvars, kvars, avars, svars>>

vars == <<rvars, cvars, nvars>>

\* The reconcile requests (namespace/name) of the model.
Requests == {"default/web", "default/api"}

\* 30 * time.Second, the RequeueAfter of a failed business step.
RequeueAfterSeconds == 30

\* ctrl.Result{}
EmptyResult == [Requeue |-> FALSE, RequeueAfter |-> 0]

\* Outcomes of r.client.Get: the environment decides an API failure, the
\* cluster state decides found / NotFound.
FetchOutcomes == {"found", "notfound", "error"}

\* Outcomes of resourceService.ProcessDeployment.
StepOutcomes == {"ok", "fail"}

NoTimer == [kind |-> "none", delay |-> 0]

NoAttempt ==
    [trigger |-> "none", fetch |-> "none", step |-> "none",
     result |-> EmptyResult, err |-> "nil", processed |-> FALSE,
     scheduled |-> <<>>, prev |-> "none"]

\* DeploymentReconciler.Reconcile as a function of what the fetch and the
\* business step do.  `processed` records whether ProcessDeployment ran.
ReconcileRequeueBug(fetch, step, service) ==
    IF fetch = "notfound"
    THEN [result |-> [Requeue |-> FALSE, RequeueAfter |-> RequeueAfterSeconds],
          err |-> "nil", processed |-> FALSE]
    ELSE IF fetch = "error"
    THEN [result |-> EmptyResult, err |-> "get", processed |-> FALSE]
    ELSE IF service /\ step = "fail"
    THEN [result |-> [Requeue |-> FALSE, RequeueAfter |-> RequeueAfterSeconds],
          err |-> "nil", processed |-> TRUE]
    ELSE [result |-> EmptyResult, err |-> "nil", processed |-> service]

ReconcilePropagateBug(fetch, step, service) ==
    IF fetch = "notfound"
    THEN [result |-> EmptyResult, err |-> "nil", processed |-> FALSE]
    ELSE IF fetch = "error"
    THEN [result |-> EmptyResult, err |-> "get", processed |-> FALSE]
    ELSE IF service /\ step = "fail"
    THEN [result |-> EmptyResult, err |-> "process", processed |-> TRUE]
    ELSE [result |-> EmptyResult, err |-> "nil", processed |-> service]

ReconcileSwallowBug(fetch, step, service) ==
    IF fetch = "notfound"
    THEN [result |-> EmptyResult, err |-> "nil", processed |-> FALSE]
    ELSE IF fetch = "error"
    THEN [result |-> [Requeue |-> FALSE, RequeueAfter |-> RequeueAfterSeconds],
          err |-> "nil", processed |-> FALSE]
    ELSE IF service /\ step = "fail"
    THEN [result |-> [Requeue |-> FALSE, RequeueAfter |-> RequeueAfterSeconds],
          err |-> "nil", processed |-> TRUE]
    ELSE [result |-> EmptyResult, err |-> "nil", processed |-> service]

Reconcile(fetch, step, service) ==
    IF fetch = "notfound"
    THEN [result |-> EmptyResult, err |-> "nil", processed |-> FALSE]
    ELSE IF fetch = "error"
    THEN [result |-> EmptyResult, err |-> "get", processed |-> FALSE]
    ELSE IF service /\ step = "fail"
    THEN [result |-> [Requeue |-> FALSE, RequeueAfter |-> RequeueAfterSeconds],
          err |-> "nil", processed |-> TRUE]
    ELSE [result |-> EmptyResult, err |-> "nil", processed |-> service]

\* What the controller built by SetupWithManager does with Reconcile's
\* return values: an error is requeued rate-limited, a RequeueAfter is
\* requeued after that delay, Requeue is requeued rate-limited, otherwise
\* the item is forgotten.  The sequence holds the requeues it issues.
Requeues(out) ==
    IF out.err # "nil" THEN <<[kind |-> "ratelimited", delay |-> 0]>>
    ELSE IF out.result.RequeueAfter > 0
    THEN <<[kind |-> "after", delay |-> out.result.RequeueAfter]>>
    ELSE IF out.result.Requeue THEN <<[kind |-> "ratelimited", delay |-> 0]>>
    ELSE <<>>

\* The delaying queue holds one entry per item and keeps the earlier
\* deadline: a rate-limited requeue is due before a 30 s one.
MergeTimer(old, new) ==
    IF old.kind = "none" THEN new
    ELSE IF new.kind = "ratelimited" THEN new
    ELSE old

\* ProcessDeployment, the business step of Processing: it brings the
\* observed state to "processed" and leaves a processed state as it is; a
\* transient failure changes nothing and is returned as the error.
ProcessDeploymentToggle(applied, step) ==
    [applied |-> IF step = "ok" THEN ~applied ELSE applied,
     err |-> IF step = "fail" THEN "process" ELSE "nil"]

ProcessDeployment(applied, step) ==
    [applied |-> applied \/ step = "ok",
     err |-> IF step = "fail" THEN "process" ELSE "nil"]

RInit ==
    /\ rObject = [id \in Requests |-> FALSE]
    /\ rService \in BOOLEAN
    /\ rQueue = [id \in Requests |-> "none"]
    /\ rTimer = [id \in Requests |-> NoTimer]
    /\ rLast = [id \in Requests |-> NoAttempt]
    /\ stopped = FALSE
    /\ rSeen = [id \in Requests |-> FALSE]
    /\ rApplied = [id \in Requests |-> FALSE]

\* The cluster creates, updates or deletes the Deployment; the controller's
\* watch (For(&appsv1.Deployment{})) enqueues the identity.  The watch also
\* enqueues an identity whose object is unchanged, when the manager's cache
\* delivers it again.
ClusterChange(id) ==
    /\ \E exists \in BOOLEAN, same \in BOOLEAN :
          /\ same => exists = rObject[id]
          /\ rObject' = [rObject EXCEPT ![id] = exists]
          /\ rSeen' = [rSeen EXCEPT ![id] = IF same THEN @ ELSE FALSE]
          /\ rApplied' = [rApplied EXCEPT ![id] = IF same THEN @ ELSE FALSE]
    /\ rQueue' = [rQueue EXCEPT ![id] = IF @ = "none" THEN "event" ELSE @]
    /\ UNCHANGED <<rService, rTimer, rLast, stopped, cvars, nvars>>

\* The delayed requeue of the identity comes due.
RetryDue(id) ==
    /\ rTimer[id].kind # "none"
    /\ rTimer' = [rTimer EXCEPT ![id] = NoTimer]
    /\ rQueue' = [rQueue EXCEPT ![id] =
           IF rTimer[id].kind = "after" THEN "retry-after" ELSE "retry-ratelimited"]
    /\ UNCHANGED <<rObject, rService, rLast, stopped, rSeen, rApplied, cvars, nvars>>

\* A worker takes the identity from the queue and runs Reconcile on it.
ReconcileAttempt(id) ==
    /\ rQueue[id] # "none"
    /\ \E apiFails \in BOOLEAN, step \in StepOutcomes :
          LET fetch == IF apiFails THEN "error"
                       ELSE IF rObject[id] THEN "found" ELSE "notfound"
              out == Reconcile(fetch, step, rService)
              req == Requeues(out)
          IN /\ rLast' = [rLast EXCEPT ![id] =
                    [trigger |-> rQueue[id], fetch |-> fetch,
                     step |-> IF out.processed THEN step ELSE "none",
                     result |-> out.result, err |-> out.err,
                     processed |-> out.processed, scheduled |-> req,
                     prev |-> IF rSeen[id] /\ rLast[id].fetch = "found"
                                    /\ fetch = "found"
                              THEN rLast[id].step ELSE "none"]]
             /\ rTimer' = [rTimer EXCEPT ![id] =
                    IF Len(req) = 0 THEN @ ELSE MergeTimer(@, req[1])]
             /\ rApplied' = [rApplied EXCEPT ![id] =
                    IF out.processed THEN ProcessDeployment(@, step).applied
                    ELSE @]
    /\ rSeen' = [rSeen EXCEPT ![id] = TRUE]
    /\ rQueue' = [rQueue EXCEPT ![id] = "none"]
    /\ UNCHANGED <<rObject, rService, stopped, cvars, nvars>>

\* ControllerRuntimeServer.Shutdown calls ControllerRuntime.Stop: the first
\* call closes stopCh and sets stopped.  The manager was started with
\* context.Background() and does not listen to stopCh.
RuntimeStop ==
    /\ ~stopped
    /\ stopped' = TRUE
    /\ UNCHANGED <<rObject, rService, rQueue, rTimer, rLast, rSeen, rApplied,
                   cvars, nvars>>

\* Bounds on the goroutines that call ControllerRuntime.Stop and on the
\* calls each of them makes.
MaxStoppers == 3

MaxStopCalls == 2

StopCallers == 1..MaxStoppers

\* No call of ControllerRuntime.Stop has been made: cr.mu is free and
\* stopCh is open.  pc[c] is the position of goroutine c in Stop, calls[c]
\* the calls it has made, closes the close(cr.stopCh) executed.
NoStopping ==
    [pc |-> [c \in StopCallers |-> "idle"],
     calls |-> [c \in StopCallers |-> 0],
     mu |-> 0, closes |-> 0, panicked |-> FALSE]

SIdle ==
    /\ stops = 0
    /\ stopping = NoStopping

\* A mutex that lets every caller in.
MayLockAlways(mu) == TRUE

\* cr.mu.Lock() succeeds when no goroutine holds the mutex.
MayLock(mu) == mu = 0

\* Goroutine c calls ControllerRuntime.Stop and reaches cr.mu.Lock().
StopEnter(c) ==
    /\ stopping.pc[c] = "idle"
    /\ stopping.calls[c] < MaxStopCalls
    /\ ~stopping.panicked
    /\ stopping' = [stopping EXCEPT !.pc[c] = "lock", !.calls[c] = @ + 1]
    /\ UNCHANGED <<rvars, cvars, pvars, kvars, avars, stops>>

\* cr.mu.Lock() returns.
StopLock(c) ==
    /\ stopping.pc[c] = "lock"
    /\ MayLock(stopping.mu)
    /\ stopping' = [stopping EXCEPT !.pc[c] = "check", !.mu = c]
    /\ UNCHANGED <<rvars, cvars, pvars, kvars, avars, stops>>

\* if !cr.stopped
StopCheck(c) ==
    /\ stopping.pc[c] = "check"
    /\ stopping' = [stopping EXCEPT !.pc[c] = IF stopped THEN "unlock" ELSE "close"]
    /\ UNCHANGED <<rvars, cvars, pvars, kvars, avars, stops>>

\* close(cr.stopCh); cr.stopped = true.  Closing a closed channel panics.
StopClose(c) ==
    /\ stopping.pc[c] = "close"
    /\ stopping' = [stopping EXCEPT !.pc[c] = "unlock",
                                    !.closes = @ + 1,
                                    !.panicked = stopping.closes > 0]
    /\ stopped' = TRUE
    /\ UNCHANGED <<rObject, rService, rQueue, rTimer, rLast, rSeen, rApplied,
                   cvars, pvars, kvars, avars, stops>>

\* defer cr.mu.Unlock(): Stop returns.
StopUnlock(c) ==
    /\ stopping.pc[c] = "unlock"
    /\ stopping' = [stopping EXCEPT !.pc[c] = "idle",
                                    !.mu = IF @ = c THEN 0 ELSE @]
    /\ UNCHANGED <<rvars, cvars, pvars, kvars, avars, stops>>

\* Goroutines that call ControllerRuntime.Stop, each any number of times.
StopNext ==
    \/ \E c \in StopCallers : StopEnter(c)
    \/ \E c \in StopCallers : StopLock(c)
    \/ \E c \in StopCallers : StopCheck(c)
    \/ \E c \in StopCallers : StopClose(c)
    \/ \E c \in StopCallers : StopUnlock(c)

RNext ==
    \/ \E id \in Requests : ClusterChange(id)
    \/ \E id \in Requests : RetryDue(id)
    \/ \E id \in Requests : ReconcileAttempt(id)
    \/ RuntimeStop

(***************************************************************************)
(* Part II.  kubeClient informers, event dispatch and the read path        *)
(* (internal/infrastructure/kubernetes, internal/infrastructure/server)    *)
(***************************************************************************)

Namespaces == {"default", "prod"}

Names == {"web"}

\* Bound on the cluster changes of a behaviour.
MaxLog == 3

\* Bound on the informer factories created in a behaviour.
MaxFactories == 2

\* Bound on the ResourceEvents recorded in `delivered`.
MaxDelivered == 3

\* Bound on the resyncs of one informer in a behaviour.
MaxResyncs == 1

\* (Spec.Replicas, Status.ReadyReplicas) of the modelled Deployments.
Snapshots == {<<2, 1>>, <<3, 3>>}

Deployment(ns, name, snap) ==
    [type |-> "Deployment", name |-> name, namespace |-> ns,
     replicas |-> snap[1], ready |-> snap[2]]

\* The contexts handed to factory.Start: context.Background(), the 5 s context
\* of Server.SetupRoutes, the cancellable context of KubernetesController.
Contexts == {"background", "setup", "controller"}

\* context.WithTimeout(ctx, 5*time.Second) of the initial sync.
SyncTimeoutSeconds == 5

\* The resync period given to every informer factory.
ResyncSeconds == 30

NoCall ==
    [pc |-> "idle", caller |-> "none", ctx |-> "background", requested |-> {},
     timedOut |-> FALSE]

\* No InitializeInformers or WatchResources call has returned yet.
NoReturn == "none"

NoResponse ==
    [status |-> "none", namespace |-> "", items |-> {}, count |-> 0,
     source |-> "", queried |-> FALSE]

TotalLog == Len(log["default"]) + Len(log["prod"])

\* informers.NewSharedInformerFactoryWithOptions(clientset, 30s, WithNamespace(ns))
\* followed by factory.Start(ctx.Done()): a Deployment informer with an empty
\* store that runs until ctx is done.  `handlers` tells whether setupInformer
\* registered the event handlers on it.
NewFactory(ns, ctx, handlers) ==
    [ns |-> ns, ctx |-> ctx, handlers |-> handlers, resync |-> ResyncSeconds,
     synced |-> FALSE, pos |-> 0, store |-> {},
     pending |-> <<>>, dpos |-> 0, resyncs |-> 0]

\* Informers started with a context of their own, which the cancellation
\* of the controller's context does not reach.
RunningDetached(f) == factories[f].ctx \notin (ctxDone \ {"controller"})

\* factory.Start(ctx.Done()): the informers run until the context is done.
Running(f) == factories[f].ctx \notin ctxDone

\* A factory the program can still reach: through c.informerFactories or
\* through the handlers registered on it.  A factory replaced in the map
\* keeps running, but nothing reads its store any more: the model keeps the
\* factory and stops following its informer.
Reachable(f) ==
    factories[f].handlers \/ informerFactories[factories[f].ns] = f

Untracked(fac) == NewFactory(fac.ns, fac.ctx, fac.handlers)

\* What the informer's store does with one notification: add and update put
\* the new object under its key, delete removes the key.
ApplyNotificationMerge(store, n) ==
    IF n.type = "delete"
    THEN {o \in store : o.name # n.obj.name}
    ELSE {o \in store : o.name # n.obj.name}
         \cup {IF \E o \in store : o.name = n.obj.name
               THEN [n.obj EXCEPT !.ready =
                        (CHOOSE o \in store : o.name = n.obj.name).ready]
               ELSE n.obj}

ApplyNotification(store, n) ==
    IF n.type = "delete"
    THEN {o \in store : o.name # n.obj.name}
    ELSE {o \in store : o.name # n.obj.name} \cup {n.obj}

\* The raw notification an informer hands to its registered handlers.
Raw(kind, shape, obj, upto) ==
    [kind |-> kind, shape |-> shape, obj |-> obj, upto |-> upto]

RawOfLog(n, upto) ==
    Raw(IF n.type = "create" THEN "add" ELSE n.type, "object", n.obj, upto)

\* The informer's initial LIST: the store takes the cluster's objects and the
\* handlers, if any, get one add per object.
RECURSIVE AddsOf(_, _)
AddsOf(objs, upto) ==
    IF objs = {} THEN <<>>
    ELSE LET o == CHOOSE x \in objs : TRUE
         IN <<Raw("add", "object", o, upto)>> \o AddsOf(objs \ {o}, upto)

\* A relist after a broken watch replaces the store: objects that are gone
\* are reported as deletes wrapped in DeletedFinalStateUnknown, objects
\* that remain as updates, new objects as adds.
RECURSIVE ReplaceOf(_, _, _)
ReplaceOf(old, new, upto) ==
    IF old = {} THEN AddsOf(new, upto)
    ELSE LET o == CHOOSE x \in old : TRUE
             same == {x \in new : x.name = o.name}
         IN IF same = {}
            THEN <<Raw("delete", "tombstone", o, upto)>>
                 \o ReplaceOf(old \ {o}, new, upto)
            ELSE <<Raw("update", "object", CHOOSE x \in same : TRUE, upto)>>
                 \o ReplaceOf(old \ {o}, new \ same, upto)

InformerList(f) ==
    /\ Running(f)
    /\ Reachable(f)
    /\ ~factories[f].synced
    /\ LET ns == factories[f].ns
           at == Len(log[ns])
       IN factories' = [factories EXCEPT ![f] =
              [@ EXCEPT !.synced = TRUE, !.pos = at,
                        !.store = upstream[ns],
                        !.pending = IF factories[f].handlers
                                    THEN AddsOf(upstream[ns], at) ELSE <<>>]]
    /\ UNCHANGED <<rvars, nvars, dvars, clientset, eventHandler, informerFactories, ctxDone, call,
                   returned, upstream, log, delivered, response, routes>>

InformerWatch(f) ==
    /\ Running(f)
    /\ Reachable(f)
    /\ factories[f].synced
    /\ factories[f].pos < Len(log[factories[f].ns])
    /\ LET n == log[factories[f].ns][factories[f].pos + 1]
       IN factories' = [factories EXCEPT ![f] =
              [@ EXCEPT !.pos = @ + 1,
                        !.store = ApplyNotification(@, n),
                        !.pending = IF factories[f].handlers
                                    THEN Append(@, RawOfLog(n, factories[f].pos + 1))
                                    ELSE @]]
    /\ UNCHANGED <<rvars, nvars, dvars, clientset, eventHandler, informerFactories, ctxDone, call,
                   returned, upstream, log, delivered, response, routes>>

InformerRelist(f) ==
    /\ Running(f)
    /\ Reachable(f)
    /\ factories[f].synced
    /\ factories[f].pos < Len(log[factories[f].ns])
    /\ LET ns == factories[f].ns
           at == Len(log[ns])
       IN factories' = [factories EXCEPT ![f] =
              [@ EXCEPT !.pos = at, !.store = upstream[ns],
                        !.pending = IF factories[f].handlers
                                    THEN @ \o ReplaceOf(factories[f].store,
                                                        upstream[ns], at)
                                    ELSE @]]
    /\ UNCHANGED <<rvars, nvars, dvars, clientset, eventHandler, informerFactories, ctxDone, call,
                   returned, upstream, log, delivered, response, routes>>

\* The updates a resync queues for the handlers: one per object of the
\* store, each with the object as the store holds it.
RECURSIVE ResyncOf(_, _)
ResyncOf(objs, upto) ==
    IF objs = {} THEN <<>>
    ELSE LET o == CHOOSE x \in objs : TRUE
         IN <<Raw("update", "object", o, upto)>> \o ResyncOf(objs \ {o}, upto)

\* A resync that lists the namespace again and replaces the store.
AfterResyncRelist(fac) ==
    [fac EXCEPT !.resyncs = @ + 1,
                !.store = upstream[fac.ns],
                !.pos = Len(log[fac.ns]),
                !.pending = @ \o ReplaceOf(fac.store, upstream[fac.ns],
                                          Len(log[fac.ns]))]

\* The informer after a resync: the store and the position of its watch
\* are as before, the handlers get the store's objects again as updates.
AfterResync(fac) ==
    [fac EXCEPT !.resyncs = @ + 1,
                !.pending = @ \o ResyncOf(fac.store, fac.pos)]

\* The resync period (30 s) of a running informer with handlers elapses.
Resync(f) ==
    /\ Running(f)
    /\ factories[f].handlers
    /\ factories[f].synced
    /\ factories[f].resyncs < MaxResyncs
    /\ factories' = [factories EXCEPT ![f] = AfterResync(@)]
    /\ UNCHANGED <<rvars, nvars, dvars, clientset, eventHandler, informerFactories, ctxDone, call,
                   returned, upstream, log, delivered, response, routes>>

\* The payload of a raw notification: an object handed over directly or a
\* cache.DeletedFinalStateUnknown wrapping one.  `meta` tells whether the
\* object implements metav1.Object, `runtime` whether it implements
\* runtime.Object, `gvk` is the Kind of its GroupVersionKind and `type` its
\* Go type.
Object(meta, runtime, gvk, type, name, namespace, labels) ==
    [meta |-> meta, runtime |-> runtime, gvk |-> gvk, type |-> type,
     name |-> name, namespace |-> namespace, labels |-> labels]

Payload(shape, obj) == [shape |-> shape, obj |-> obj]

\* A typed Deployment from an informer: its TypeMeta is empty.
TypedDeployment(name, namespace) ==
    Object(TRUE, TRUE, "", "Deployment", name, namespace, "")

\* A value that is not an object with metadata.
NonObject == Object(FALSE, FALSE, "", "Other", "", "", "")

\* domain.Resource{}
ZeroResource == [Kind |-> "", Name |-> "", Namespace |-> "", Labels |-> ""]

\* obj.(metav1.Object) on the payload as the handler functions receive it:
\* a tombstone is not an object with metadata.
IsMetaObject(p) == p.shape = "object" /\ p.obj.meta

\* A lookup without the default case: the name of the Go type.
getKindFromTypeName(o) == o.type

getKindFromResourceType(o) ==
    IF o.type \in {"Pod", "Service", "Deployment", "ConfigMap"}
    THEN o.type ELSE "Unknown"

\* A converter that reads the identity from the payload without unwrapping
\* a tombstone.
convertWithoutUnwrap(p) ==
    IF ~IsMetaObject(p) THEN ZeroResource
    ELSE [Kind |-> IF ~p.obj.runtime THEN "Unknown"
                   ELSE IF p.obj.gvk # "" THEN p.obj.gvk
                   ELSE getKindFromResourceType(p.obj),
          Name |-> p.obj.name, Namespace |-> p.obj.namespace,
          Labels |-> p.obj.labels]

\* kubeClient.convertToDomainResource: a tombstone is unwrapped; a value
\* without metadata gives domain.Resource{}; the kind is the object's
\* GroupVersionKind, else the type lookup, "Unknown" without runtime.Object.
convertToDomainResource(p) ==
    LET o == p.obj
    IN IF ~o.meta THEN ZeroResource
       ELSE [Kind |-> IF ~o.runtime THEN "Unknown"
                      ELSE IF o.gvk # "" THEN o.gvk
                      ELSE getKindFromResourceType(o),
             Name |-> o.name, Namespace |-> o.namespace, Labels |-> o.labels]

\* What a handler function does with one payload: it calls
\* handler.HandleEvent with an event, or logs and returns without a call.
Calls(type, resource) ==
    [called |-> TRUE, event |-> [Type |-> type, Resource |-> resource],
     logged |-> ""]

Drops(message) ==
    [called |-> FALSE, event |-> [Type |-> "", Resource |-> ZeroResource],
     logged |-> message]

handleAddEvent(p) ==
    IF ~IsMetaObject(p)
    THEN Drops("Failed to convert object to metav1.Object")
    ELSE Calls("CREATED", convertToDomainResource(p))

handleUpdateEvent(p) ==
    IF ~IsMetaObject(p)
    THEN Drops("Failed to convert object to metav1.Object")
    ELSE Calls("UPDATED", convertToDomainResource(p))

\* A delete handler that trusts every tombstone to wrap an object.
handleDeleteEventUnchecked(p) ==
    IF IsMetaObject(p) \/ p.shape = "tombstone"
    THEN Calls("DELETED", convertToDomainResource(p))
    ELSE Drops("Failed to convert object to metav1.Object or tombstone")

handleDeleteEvent(p) ==
    IF IsMetaObject(p) THEN Calls("DELETED", convertToDomainResource(p))
    ELSE IF p.shape # "tombstone"
    THEN Drops("Failed to convert object to metav1.Object or tombstone")
    ELSE IF ~p.obj.meta
    THEN Drops("Failed to convert tombstone to metav1.Object")
    ELSE Calls("DELETED", convertToDomainResource(p))

\* The handler function registered for the kind of notification.
HandlerFunc(kind, p) ==
    CASE kind = "add" -> handleAddEvent(p)
      [] kind = "update" -> handleUpdateEvent(p)
      [] OTHER -> handleDeleteEvent(p)

\* The payload an informer of Deployments hands over for a raw notification.
PayloadOf(raw) ==
    Payload(raw.shape, TypedDeployment(raw.obj.name, raw.obj.namespace))

\* handleAddEvent / handleUpdateEvent / handleDeleteEvent: the ResourceEvent
\* built from one raw notification.
EventOf(raw) == HandlerFunc(raw.kind, PayloadOf(raw)).event

\* The informer's listener hands its next notification to the registered
\* handler functions, which convert it and call handler.HandleEvent.
Deliver(f) ==
    /\ Running(f)
    /\ factories[f].handlers
    /\ factories[f].pending # <<>>
    /\ Len(delivered) < MaxDelivered
    /\ delivered' = Append(delivered, EventOf(Head(factories[f].pending)))
    /\ factories' = [factories EXCEPT ![f] =
           [@ EXCEPT !.pending = Tail(@), !.dpos = Head(factories[f].pending).upto]]
    /\ UNCHANGED <<rvars, nvars, dvars, clientset, eventHandler, informerFactories, ctxDone, call,
                   returned, upstream, log, response, routes>>

\* The cluster creates, updates or deletes a Deployment.
UpstreamCreate(ns, name, snap) ==
    /\ TotalLog < MaxLog
    /\ \A o \in upstream[ns] : o.name # name
    /\ upstream' = [upstream EXCEPT ![ns] = @ \cup {Deployment(ns, name, snap)}]
    /\ log' = [log EXCEPT ![ns] =
           Append(@, [type |-> "create", obj |-> Deployment(ns, name, snap)])]
    /\ UNCHANGED <<rvars, nvars, dvars, clientset, eventHandler, informerFactories, factories, ctxDone,
                   call, returned, delivered, response, routes>>

UpstreamUpdate(ns, name, snap) ==
    /\ TotalLog < MaxLog
    /\ \E o \in upstream[ns] : o.name = name /\ o # Deployment(ns, name, snap)
    /\ upstream' = [upstream EXCEPT ![ns] =
           {o \in @ : o.name # name} \cup {Deployment(ns, name, snap)}]
    /\ log' = [log EXCEPT ![ns] =
           Append(@, [type |-> "update", obj |-> Deployment(ns, name, snap)])]
    /\ UNCHANGED <<rvars, nvars, dvars, clientset, eventHandler, informerFactories, factories, ctxDone,
                   call, returned, delivered, response, routes>>

UpstreamDelete(ns, name) ==
    /\ TotalLog < MaxLog
    /\ \E o \in upstream[ns] : o.name = name
    /\ upstream' = [upstream EXCEPT ![ns] = {o \in @ : o.name # name}]
    /\ log' = [log EXCEPT ![ns] =
           Append(@, [type |-> "delete",
                      obj |-> CHOOSE o \in upstream[ns] : o.name = name])]
    /\ UNCHANGED <<rvars, nvars, dvars, clientset, eventHandler, informerFactories, factories, ctxDone,
                   call, returned, delivered, response, routes>>

\* The order in which a namespace list is walked.
NsSeq(S) ==
    (IF "default" \in S THEN <<"default">> ELSE <<>>)
    \o (IF "prod" \in S THEN <<"prod">> ELSE <<>>)

IndexIn(seq, x) == CHOOSE i \in 1..Len(seq) : seq[i] = x

StartFactories(ctx, S, handlers) ==
    [i \in 1..Len(NsSeq(S)) |-> NewFactory(NsSeq(S)[i], ctx, handlers)]

\* The namespaces InitializeInformers works on: "default" when none is given.
RequestedOf(nss) == IF nss = {} THEN {"default"} ELSE nss

\* The wait loop of InitializeInformers is over: every factory in
\* c.informerFactories has synced, or syncCtx (5 s, child of ctx) is done.
AllRegisteredSynced ==
    \A n \in Namespaces :
        informerFactories[n] # 0 => factories[informerFactories[n]].synced

WaitOverDeadlineOnly == call.timedOut \/ call.ctx \in ctxDone

WaitOver == AllRegisteredSynced \/ call.timedOut \/ call.ctx \in ctxDone

\* InitializeInformers up to its wait: one new factory per namespace, stored
\* in c.informerFactories (replacing an earlier entry) and started with ctx.
InitializeStart(caller, ctx, nss) ==
    /\ Len(factories) + Cardinality(RequestedOf(nss))
          + (IF caller = "WatchResources" THEN 1 ELSE 0) <= MaxFactories
    /\ factories' =
           [f \in 1..Len(factories) |->
               IF factories[f].ns \in RequestedOf(nss) /\ ~factories[f].handlers
               THEN Untracked(factories[f]) ELSE factories[f]]
           \o StartFactories(ctx, RequestedOf(nss), FALSE)
    /\ informerFactories' =
           [n \in Namespaces |->
               IF n \in RequestedOf(nss)
               THEN Len(factories) + IndexIn(NsSeq(RequestedOf(nss)), n)
               ELSE informerFactories[n]]
    /\ call' = [pc |-> "waiting", caller |-> caller, ctx |-> ctx,
                requested |-> RequestedOf(nss), timedOut |-> FALSE]
    /\ UNCHANGED returned

\* An InitializeInformers that registers and starts the factory of
\* "default" before it finds the client not connected.
InitializeFailLate(caller) ==
    /\ returned' = "kubernetes client not connected"
    /\ factories' = factories \o StartFactories("background", {"default"}, FALSE)
    /\ informerFactories' =
           [informerFactories EXCEPT !["default"] = Len(factories) + 1]
    /\ UNCHANGED call

\* InitializeInformers on a client that is not connected.
InitializeFail(caller) ==
    /\ returned' = "kubernetes client not connected"
    /\ UNCHANGED <<factories, informerFactories, call>>

CInit ==
    /\ clientset = FALSE
    /\ eventHandler = FALSE
    /\ informerFactories = [n \in Namespaces |-> 0]
    /\ factories = <<>>
    /\ ctxDone = {}
    /\ call = NoCall
    /\ returned = NoReturn
    /\ upstream = [n \in Namespaces |-> {}]
    /\ log = [n \in Namespaces |-> <<>>]
    /\ delivered = <<>>
    /\ response = NoResponse
    /\ routes = FALSE
    /\ subs = <<>>

\* kubeClient.Connect: success sets the clientset, failure leaves it.
Connect ==
    /\ \E ok \in BOOLEAN : clientset' = (clientset \/ ok)
    /\ UNCHANGED <<rvars, nvars, dvars, eventHandler, informerFactories, factories, ctxDone, call,
                   returned, upstream, log, delivered, response, routes>>

SetEventHandler ==
    /\ ~eventHandler
    /\ eventHandler' = TRUE
    /\ UNCHANGED <<rvars, nvars, dvars, clientset, informerFactories, factories, ctxDone, call,
                   returned, upstream, log, delivered, response, routes>>

\* kubeClient.InitializeInformers called directly, up to its wait.
InitializeInformers(ctx, nss) ==
    /\ call.pc = "idle"
    /\ ctx \notin ctxDone
    /\ IF clientset
       THEN InitializeStart("InitializeInformers", ctx, nss)
       ELSE InitializeFail("InitializeInformers")
    /\ UNCHANGED <<rvars, nvars, dvars, clientset, eventHandler, ctxDone, upstream, log, delivered,
                   response, routes>>

\* Server.SetupRoutes with the 5 s context: Connect, then InitializeInformers
\* for "default"; a failed Connect returns before any route is registered.
SetupRoutes ==
    /\ call.pc = "idle"
    /\ ~routes
    /\ "setup" \notin ctxDone
    /\ \E ok \in BOOLEAN :
          /\ clientset' = (clientset \/ ok)
          /\ IF ok
             THEN InitializeStart("SetupRoutes", "setup", {"default"})
             ELSE UNCHANGED <<factories, informerFactories, call, returned>>
    /\ UNCHANGED <<rvars, nvars, dvars, eventHandler, ctxDone, upstream, log, delivered, response,
                   routes>>

\* Server.SetupRoutes that initializes the informers in a goroutine with
\* context.Background() and registers the routes whatever Connect returned.
SetupRoutesAsync ==
    /\ call.pc = "idle"
    /\ ~routes
    /\ routes' = TRUE
    /\ \E ok \in BOOLEAN :
          /\ clientset' = (clientset \/ ok)
          /\ IF clientset'
             THEN InitializeStart("SetupRoutesAsync", "background", {"default"})
             ELSE InitializeFail("SetupRoutesAsync")
    /\ UNCHANGED <<rvars, nvars, dvars, eventHandler, ctxDone, upstream, log, delivered, response>>

\* A WatchResources without the check of the event handler.
WatchResourcesUnchecked(ctx) ==
    /\ call.pc = "idle"
    /\ ctx \notin ctxDone
    /\ IF clientset
       THEN InitializeStart("WatchResources", ctx, {"default"})
       ELSE InitializeFail("WatchResources")
    /\ UNCHANGED <<rvars, nvars, dvars, clientset, eventHandler, ctxDone, upstream, log, delivered,
                   response, routes>>

\* kubeClient.WatchResources up to the wait of its InitializeInformers call.
WatchResources(ctx) ==
    /\ call.pc = "idle"
    /\ ctx \notin ctxDone
    /\ IF ~eventHandler
       THEN /\ returned' = "nil"
            /\ UNCHANGED <<factories, informerFactories, call>>
       ELSE IF clientset
       THEN InitializeStart("WatchResources", ctx, {"default"})
       ELSE InitializeFail("WatchResources")
    /\ UNCHANGED <<rvars, nvars, dvars, clientset, eventHandler, ctxDone, upstream, log, delivered,
                   response, routes>>

\* The 5 s of syncCtx elapse; the context of SetupRoutes, created before it
\* with the same timeout, is past its deadline too.
SyncDeadline ==
    /\ call.pc = "waiting"
    /\ ~call.timedOut
    /\ call' = [call EXCEPT !.timedOut = TRUE]
    /\ ctxDone' = IF call.ctx = "setup" THEN ctxDone \cup {"setup"} ELSE ctxDone
    /\ UNCHANGED <<rvars, nvars, dvars, clientset, eventHandler, informerFactories, factories,
                   returned, upstream, log, delivered, response, routes>>

\* InitializeInformers returns nil.  SetupRoutes then cancels its context
\* (defer cancel()) and registers the routes; WatchResources goes on to
\* startInformers, which creates and starts one more factory per namespace,
\* with the event handlers registered.
InitializeReturn ==
    /\ call.pc = "waiting"
    /\ WaitOver
    /\ returned' = "nil"
    /\ call' = NoCall
    /\ ctxDone' = IF call.caller = "SetupRoutes"
                  THEN ctxDone \cup {"setup"} ELSE ctxDone
    /\ routes' = (routes \/ call.caller = "SetupRoutes")
    /\ factories' = IF call.caller = "WatchResources"
                    THEN factories \o StartFactories(call.ctx, {"default"}, TRUE)
                    ELSE factories
    /\ UNCHANGED <<rvars, nvars, dvars, clientset, eventHandler, informerFactories, upstream, log,
                   delivered, response>>

\* No KubernetesController has been built.
NoController == [built |-> FALSE]

\* Bound on the calls of KubernetesController.Stop.
MaxStops == 2

\* KubernetesController.Stop calls c.cancelFunc(), which cancels the
\* controller's context; on a cancelled context it does nothing.
Stop ==
    /\ stops < MaxStops
    /\ \/ \E f \in 1..Len(factories) : factories[f].ctx = "controller"
       \/ controller # NoController
    /\ stops' = stops + 1
    /\ ctxDone' = ctxDone \cup {"controller"}
    /\ UNCHANGED <<rvars, pvars, kvars, avars, stopping, dvars, clientset, eventHandler,
                   informerFactories, factories, call, returned, upstream, log,
                   delivered, response, routes>>

\* The domain.Deployment built from a cached or listed appsv1.Deployment:
\* Replicas from *dep.Spec.Replicas, ReadyReplicas from dep.Status.
DomainDeploymentSwapped(o) ==
    [Name |-> o.name, Namespace |-> o.namespace,
     Replicas |-> o.ready, ReadyReplicas |-> o.replicas]

DomainDeployment(o) ==
    [Name |-> o.name, Namespace |-> o.namespace,
     Replicas |-> o.replicas, ReadyReplicas |-> o.ready]

\* store.List(): the objects of the store, one per key, in some order.
RECURSIVE StoreList(_)
StoreList(store) ==
    IF store = {} THEN <<>>
    ELSE LET o == CHOOSE x \in store : TRUE
         IN <<o>> \o StoreList(store \ {o})

\* A listing that appends every Deployment of the store, whatever its
\* namespace.
getDeploymentsFromStoreUnfiltered(store, namespace) ==
    LET objs == StoreList(store)
    IN [list |-> [i \in 1..Len(objs) |-> DomainDeployment(objs[i])],
        items |-> {DomainDeployment(o) : o \in store},
        err |-> "nil"]

\* obj.(*appsv1.Deployment) on an item of store.List().
IsDeployment(x) == x.type = "Deployment"

\* A listing that reports an item it cannot convert as an error.
getDeploymentsFromStoreStrict(store, namespace) ==
    LET objs == StoreList(store)
        kept == SelectSeq(objs,
                    LAMBDA x : IsDeployment(x)
                               /\ ~(namespace # "" /\ x.namespace # namespace))
    IN [list |-> [i \in 1..Len(kept) |-> DomainDeployment(kept[i])],
        items |-> {DomainDeployment(kept[i]) : i \in 1..Len(kept)},
        err |-> IF \E x \in store : ~IsDeployment(x)
                THEN "failed to convert object to Deployment" ELSE "nil"]

\* DeploymentController.getDeploymentsFromStore: the loop over store.List()
\* skips an item that is no *appsv1.Deployment, skips an object of another
\* namespace when a namespace is requested and appends the
\* domain.Deployment of every other one; the error is always nil.  `list`
\* is the slice returned, `items` its elements.
getDeploymentsFromStore(store, namespace) ==
    LET objs == StoreList(store)
        kept == SelectSeq(objs,
                    LAMBDA x : IsDeployment(x)
                               /\ ~(namespace # "" /\ x.namespace # namespace))
    IN [list |-> [i \in 1..Len(kept) |-> DomainDeployment(kept[i])],
        items |-> {DomainDeployment(kept[i]) : i \in 1..Len(kept)},
        err |-> "nil"]

\* A client whose failed remote query gives an empty list and no error.
ClientListDeploymentsSwallow(namespace, apiFails) ==
    IF informerFactories[namespace] = 0
    THEN IF apiFails \/ ~clientset
         THEN [items |-> {}, err |-> "nil", queried |-> clientset]
         ELSE [items |-> {DomainDeployment(o) : o \in upstream[namespace]},
               err |-> "nil", queried |-> TRUE]
    ELSE [items |-> {DomainDeployment(o) :
                        o \in {x \in factories[informerFactories[namespace]].store :
                                  x.namespace = namespace}},
          err |-> "nil", queried |-> FALSE]

\* kubeClient.ListDeployments: the remote API when the namespace has no
\* factory, the factory's lister otherwise.
ClientListDeployments(namespace, apiFails) ==
    IF ~clientset
    THEN [items |-> {}, err |-> "kubernetes client not connected", queried |-> FALSE]
    ELSE IF informerFactories[namespace] = 0
    THEN IF apiFails
         THEN [items |-> {}, err |-> "api", queried |-> TRUE]
         ELSE [items |-> {DomainDeployment(o) : o \in upstream[namespace]},
               err |-> "nil", queried |-> TRUE]
    ELSE [items |-> {DomainDeployment(o) :
                        o \in {x \in factories[informerFactories[namespace]].store :
                                  x.namespace = namespace}},
          err |-> "nil", queried |-> FALSE]

ErrorResponse(namespace, r) ==
    [status |-> "error", namespace |-> namespace, items |-> {}, count |-> 0,
     source |-> "", queried |-> r.queried]

SuccessResponse(namespace, items, source, queried) ==
    [status |-> "success", namespace |-> namespace, items |-> items,
     count |-> Cardinality(items), source |-> source, queried |-> queried]

\* The source reported when the store read succeeds.
StoreSource == "informer-cache"

\* DeploymentController.ListDeployments as a function of the client state.
ListResponseAlwaysAPI(namespace, apiFails) ==
    LET r == ClientListDeployments(namespace, apiFails)
    IN IF r.err # "nil" THEN ErrorResponse(namespace, r)
       ELSE SuccessResponse(namespace, r.items, "api", r.queried)

\* A read path that uses the store only once its informer has synced.
ListResponseWhenSynced(namespace, apiFails) ==
    IF informerFactories[namespace] = 0
       \/ ~factories[informerFactories[namespace]].synced
    THEN LET r == ClientListDeployments(namespace, apiFails)
         IN IF r.err # "nil" THEN ErrorResponse(namespace, r)
            ELSE SuccessResponse(namespace, r.items, "api", r.queried)
    ELSE SuccessResponse(namespace,
             getDeploymentsFromStore(
                 factories[informerFactories[namespace]].store, namespace).items,
             StoreSource, FALSE)

\* The branch of DeploymentController.ListDeployments taken when the
\* namespace has an informer: the items of its store, or, when the store
\* read fails, what c.client.ListDeployments gives (`api`).
ReadFromStore(store, namespace, api) ==
    LET st == getDeploymentsFromStore(store, namespace)
    IN IF st.err # "nil"
       THEN IF api.err # "nil" THEN ErrorResponse(namespace, api)
            ELSE SuccessResponse(namespace, api.items, "api-fallback",
                                 api.queried)
       ELSE SuccessResponse(namespace, st.items, StoreSource, FALSE)

ListResponse(namespace, apiFails) ==
    IF informerFactories[namespace] = 0
    THEN LET r == ClientListDeployments(namespace, apiFails)
         IN IF r.err # "nil" THEN ErrorResponse(namespace, r)
            ELSE SuccessResponse(namespace, r.items, "api", r.queried)
    ELSE ReadFromStore(factories[informerFactories[namespace]].store, namespace,
                       ClientListDeployments(namespace, apiFails))

\* The namespace query of a request: none, or one of the namespaces.
Queries == {""} \cup Namespaces

\* ctx.Query("namespace", "default").
QueryNamespace(q) == IF q = "" THEN "default" ELSE q

\* GET deployments?namespace=N on the registered route.
ListDeployments(namespace) ==
    /\ routes
    /\ \E apiFails \in BOOLEAN : response' = ListResponse(namespace, apiFails)
    /\ UNCHANGED <<rvars, nvars, dvars, clientset, eventHandler, informerFactories, factories, ctxDone,
                   call, returned, upstream, log, delivered, routes>>

\* The informers and the cluster, which run beside every process.
Background ==
    \/ \E f \in 1..Len(factories) : InformerList(f)
    \/ \E f \in 1..Len(factories) : InformerWatch(f)
    \/ \E f \in 1..Len(factories) : InformerRelist(f)
    \/ \E ns \in Namespaces, name \in Names :
           \/ \E snap \in Snapshots : UpstreamCreate(ns, name, snap)
           \/ \E snap \in Snapshots : UpstreamUpdate(ns, name, snap)
           \/ UpstreamDelete(ns, name)

\* The server process (cmd serve): SetupRoutes in either of its forms, the
\* client's InitializeInformers, and the deployments read endpoint.
Next ==
    \/ SetupRoutes
    \/ SetupRoutesAsync
    \/ \E nss \in SUBSET Namespaces : InitializeInformers("background", nss)
    \/ SyncDeadline
    \/ InitializeReturn
    \/ \E q \in Queries : ListDeployments(QueryNamespace(q))
    \/ Background

\* The controller process (KubernetesController): the handler is set, the
\* client connects, WatchResources runs until Stop.
WatchNext ==
    \/ Connect
    \/ SetEventHandler
    \/ \E ctx \in {"background", "controller"} : WatchResources(ctx)
    \/ SyncDeadline
    \/ InitializeReturn
    \/ Stop
    \/ \E f \in 1..Len(factories) : Deliver(f)
    \/ \E f \in 1..Len(factories) : Resync(f)
    \/ Background

\* kubeClient.GetDeploymentInformer: the informer of the namespace's
\* factory, or an error when the registry has no factory for it.
GetDeploymentInformer(namespace) ==
    IF informerFactories[namespace] = 0
    THEN [informer |-> 0, err |-> "no informer factory for namespace"]
    ELSE [informer |-> informerFactories[namespace], err |-> "nil"]

\* The client on its own: it may connect and get its handler, and
\* InitializeInformers and WatchResources are called on it in any state.
ClientNext ==
    \/ Connect
    \/ SetEventHandler
    \/ \E nss \in SUBSET Namespaces : InitializeInformers("background", nss)
    \/ \E ctx \in {"background", "controller"} : WatchResources(ctx)
    \/ SyncDeadline
    \/ InitializeReturn
    \/ \E f \in 1..Len(factories) : Deliver(f)
    \/ Background

(***************************************************************************)
(* Part III.  startInformers and the handler functions as a dispatcher of  *)
(* raw notifications (internal/infrastructure/kubernetes)                  *)
(***************************************************************************)

\* Bound on the handler registrations of a behaviour.
MaxSubs == 2

\* Bound on the raw notifications of a behaviour.
MaxNotifications == 2

\* The resource types setupInformer knows.
SupportedResources ==
    {"pods", "pod", "services", "service", "deployments", "deployment",
     "configmaps", "configmap"}

\* The namespace lists and resource lists startInformers is called with.
StartNamespaces == {<<"default">>, <<"default", "prod">>}

StartResources == {<<"deployments">>, <<"secrets", "deployments">>}

\* The raw notifications of the model, as <<kind, payload>>: objects with
\* metadata, a tombstone wrapping one, a tombstone wrapping a value without
\* metadata, and values without metadata.
RawNotifications ==
    {<<"add", Payload("object", TypedDeployment("web", "default"))>>,
     <<"add", Payload("object", NonObject)>>,
     <<"update", Payload("object",
                    Object(TRUE, FALSE, "", "Other", "web", "default", "app=web"))>>,
     <<"delete", Payload("object", TypedDeployment("web", "default"))>>,
     <<"delete", Payload("tombstone",
                    Object(TRUE, TRUE, "", "Deployment", "web", "default", "app=web"))>>,
     <<"delete", Payload("tombstone", NonObject)>>}

\* informer.AddEventHandler(cache.ResourceEventHandlerFuncs{...}) on the
\* informer of `resource` in a new factory for `ns`: one listener, with its
\* own queue, that runs the handler functions one notification at a time.
NewSub(ns, resource) ==
    [ns |-> ns, resource |-> resource, queue |-> <<>>, busy |-> FALSE,
     done |-> <<>>]

\* A setupInformer that refuses a resource type it does not know.
setupInformerStrict(resource, ns, failNs) ==
    IF resource \notin SupportedResources
    THEN [subs |-> <<>>, err |-> "unsupported resource type"]
    ELSE IF ns = failNs
    THEN [subs |-> <<>>, err |-> "failed to add event handler"]
    ELSE [subs |-> <<NewSub(ns, resource)>>, err |-> "nil"]

\* kubeClient.setupInformer: the default case of the switch logs a warning
\* and returns nil; for a known type the handler functions are registered
\* on its informer, and the error of AddEventHandler is returned.
setupInformer(resource, ns, failNs) ==
    IF resource \notin SupportedResources
    THEN [subs |-> <<>>, err |-> "nil"]
    ELSE IF ns = failNs
    THEN [subs |-> <<>>, err |-> "failed to add event handler"]
    ELSE [subs |-> <<NewSub(ns, resource)>>, err |-> "nil"]

\* The loop of startInformers over the resources of one namespace: the
\* first error ends it, and the registrations made on the factory, which is
\* then never started, receive nothing.
RECURSIVE SetupAll(_, _, _)
SetupAll(resources, ns, failNs) ==
    IF resources = <<>> THEN [subs |-> <<>>, err |-> "nil"]
    ELSE LET r == setupInformer(Head(resources), ns, failNs)
         IN IF r.err # "nil" THEN [subs |-> <<>>, err |-> r.err]
            ELSE LET rest == SetupAll(Tail(resources), ns, failNs)
                 IN IF rest.err # "nil" THEN [subs |-> <<>>, err |-> rest.err]
                    ELSE [subs |-> r.subs \o rest.subs, err |-> "nil"]

\* startInformers over the namespaces nss: for each namespace a new
\* factory, setupInformer for every resource (an unsupported resource is
\* skipped), then factory.Start.  A setupInformer error returns at once:
\* the factory of that namespace is not started and the namespaces after it
\* are not visited.  failNs is the namespace whose AddEventHandler fails.
\* `started` lists the namespaces whose factory was started.
RECURSIVE StartResult(_, _, _)
StartResult(nss, resources, failNs) ==
    IF nss = <<>> THEN [subs |-> <<>>, err |-> "nil", started |-> <<>>]
    ELSE LET ns == Head(nss)
             one == SetupAll(resources, ns, failNs)
         IN IF one.err # "nil"
            THEN [subs |-> <<>>, err |-> one.err, started |-> <<>>]
            ELSE LET rest == StartResult(Tail(nss), resources, failNs)
                 IN [subs |-> one.subs \o rest.subs,
                     err |-> rest.err,
                     started |-> <<ns>> \o rest.started]

\* kubeClient.startInformers, reached from WatchResources on a connected
\* client with a handler.
startInformers(nss, resources, failNs) ==
    /\ clientset
    /\ eventHandler
    /\ LET r == StartResult(nss, resources, failNs)
       IN /\ Len(subs) + Len(r.subs) <= MaxSubs
          /\ subs' = subs \o r.subs
          /\ returned' = r.err
    /\ UNCHANGED <<rvars, nvars, clientset, eventHandler, informerFactories, factories,
                   ctxDone, call, upstream, log, delivered, response, routes>>

\* The notifications received so far: those processed and those queued.
ReceivedBy(sub) == Len(sub.done) + Len(sub.queue)

RECURSIVE ReceivedFrom(_)
ReceivedFrom(i) ==
    IF i > Len(subs) THEN 0 ELSE ReceivedBy(subs[i]) + ReceivedFrom(i + 1)

Received == ReceivedFrom(1)

\* The informer of a registration gets a raw notification from its watch and
\* queues it for its listener; rv numbers the notifications of the
\* registration by arrival.
Notify(s, kind, p) ==
    /\ Received < MaxNotifications
    /\ subs' = [subs EXCEPT ![s].queue =
           Append(@, [kind |-> kind, payload |-> p,
                      rv |-> ReceivedBy(subs[s]) + 1])]
    /\ UNCHANGED <<rvars, nvars, clientset, eventHandler, informerFactories, factories,
                   ctxDone, call, returned, upstream, log, delivered, response,
                   routes>>

\* The notification a listener takes next: the oldest of its queue.
NextNotificationNewest(queue) == queue[Len(queue)]

NextNotification(queue) == Head(queue)

RemoveAt(queue, i) == SubSeq(queue, 1, i - 1) \o SubSeq(queue, i + 1, Len(queue))

IndexOfRv(queue, rv) == CHOOSE i \in 1..Len(queue) : queue[i].rv = rv

\* The listener of registration s takes its next notification and enters
\* the handler function for it.
HandleBegin(s) ==
    /\ ~subs[s].busy
    /\ subs[s].queue # <<>>
    /\ subs' = [subs EXCEPT ![s].busy = TRUE]
    /\ UNCHANGED <<rvars, nvars, clientset, eventHandler, informerFactories, factories,
                   ctxDone, call, returned, upstream, log, delivered, response,
                   routes>>

\* What the handler function leaves behind for notification n when
\* handler.HandleEvent, if called, returns the error `failed`.
DispatchRecord(n, failed) ==
    LET r == HandlerFunc(n.kind, n.payload)
    IN [rv |-> n.rv, kind |-> n.kind, payload |-> n.payload,
        called |-> r.called, event |-> r.event,
        failed |-> r.called /\ failed,
        logged |-> IF r.called /\ failed THEN "Failed to handle event"
                   ELSE r.logged]

\* The listener's queue after the handler function has returned: the
\* notification is gone whatever the handler returned.
AfterHandleRetry(queue, n, failed) ==
    IF failed THEN queue ELSE RemoveAt(queue, IndexOfRv(queue, n.rv))

AfterHandle(queue, n, failed) == RemoveAt(queue, IndexOfRv(queue, n.rv))

\* The handler function returns to the listener: without a call to the
\* handler when the payload was refused, after handler.HandleEvent
\* otherwise, whose error is logged and not returned.
HandleEnd(s, failed) ==
    /\ subs[s].busy
    /\ LET n == NextNotification(subs[s].queue)
           d == DispatchRecord(n, failed)
       IN /\ (failed => d.called)
          /\ subs' = [subs EXCEPT ![s].busy = FALSE,
                                  ![s].queue = AfterHandle(@, n, d.failed),
                                  ![s].done = Append(@, d)]
    /\ UNCHANGED <<rvars, nvars, clientset, eventHandler, informerFactories, factories,
                   ctxDone, call, returned, upstream, log, delivered, response,
                   routes>>

\* The controller's client as a dispatcher: it connects, gets its handler,
\* starts its informers, and the listeners run the handler functions.
DispatchNext ==
    \/ Connect
    \/ SetEventHandler
    \/ \E nss \in StartNamespaces, resources \in StartResources,
          failNs \in {""} \cup Namespaces : startInformers(nss, resources, failNs)
    \/ \E s \in 1..Len(subs), n \in RawNotifications : Notify(s, n[1], n[2])
    \/ \E s \in 1..Len(subs) : HandleBegin(s)
    \/ \E s \in 1..Len(subs), failed \in BOOLEAN : HandleEnd(s, failed)

(***************************************************************************)
(* Part IV.  The functions of the converter, the read path and the event   *)
(* handlers, applied to inputs drawn from bounded sets                     *)
(***************************************************************************)

NoArg == [fn |-> "none", in |-> <<>>]

NoResult == [fn |-> "none", out |-> <<>>]

PIdle ==
    /\ arg = NoArg
    /\ result = NoResult

\* The Go types of the objects handed to the converter: the four of the
\* lookup table, two typed objects outside it, and a value that is no
\* Kubernetes object.
TableTypes == {"Pod", "Service", "Deployment", "ConfigMap"}

ObjectTypes == TableTypes \cup {"Secret", "StatefulSet", "Other"}

\* The objects the converter is applied to.  A typed Kubernetes object has
\* metadata and implements runtime.Object; its TypeMeta is empty when it comes
\* from a typed informer and set when it was decoded from the wire.
ConvertObjects ==
    {Object(meta, runtime, gvk, type, name, namespace, labels) :
        meta \in BOOLEAN, runtime \in BOOLEAN, gvk \in {"", "Deployment", "CronJob"},
        type \in ObjectTypes, name \in {"web"}, namespace \in {"default", "prod"},
        labels \in {"", "app=web"}}

RealObject(o) ==
    /\ o.type # "Other" => (o.meta /\ o.runtime)
    /\ o.gvk # "" => o.runtime
    /\ (o.gvk # "" /\ o.type \in TableTypes) => o.gvk = o.type
    /\ ~o.meta => (o.name = "web" /\ o.namespace = "default" /\ o.labels = "")

ConvertInputs ==
    {Payload(shape, o) : shape \in {"object", "tombstone"},
                         o \in {x \in ConvertObjects : RealObject(x)}}

\* The stores the listing is applied to: Deployments of two namespaces, at
\* most one per key (namespace/name).
StoreNames == {"web", "api"}

StoreObjects ==
    {Deployment(ns, name, snap) :
        ns \in Namespaces, name \in StoreNames, snap \in Snapshots}

Stores ==
    {S \in SUBSET StoreObjects :
        \A x, y \in S : (x.name = y.name /\ x.namespace = y.namespace) => x = y}

ListNamespaces == {"", "default", "prod", "staging"}

\* Items of a store that are no *appsv1.Deployment.
OtherItems ==
    {[type |-> "Service", name |-> "svc", namespace |-> ns, replicas |-> 0,
      ready |-> 0] : ns \in Namespaces}

\* Stores that hold such items beside Deployments named web.
MixedStores ==
    {S \cup T : S \in {X \in Stores : \A o \in X : o.name = "web"},
                T \in SUBSET OtherItems}

\* What c.client.ListDeployments returns to the read path: an error, or
\* the Deployments of the remote API.
ApiResults ==
    {[items |-> {}, err |-> "api", queried |-> TRUE],
     [items |-> {DomainDeployment(Deployment("default", "web", <<2, 1>>))},
      err |-> "nil", queried |-> TRUE]}

\* The resource type names handed to startInformers: known ones, a typed
\* resource setupInformer has no case for, and a known one misspelt.
ResourceNames == {"deployments", "pod", "secrets", "Deployments"}

\* Resource lists of up to three names.
ResourceLists ==
    {<<>>} \cup {<<a>> : a \in ResourceNames}
    \cup {<<a, b>> : a \in ResourceNames, b \in ResourceNames}
    \cup {<<a, b, c>> : a \in ResourceNames, b \in ResourceNames,
                         c \in ResourceNames}

StartInputs ==
    {[nss |-> n, resources |-> r, failNs |-> f] :
        n \in StartNamespaces, r \in ResourceLists, f \in {"", "prod"}}

ReadInputs ==
    {[store |-> S, namespace |-> n, api |-> a] :
        S \in MixedStores, n \in Namespaces, a \in ApiResults}

StoreInputs == {[store |-> S, namespace |-> n] : S \in Stores, n \in ListNamespaces}

\* The ResourceEvents the handlers are applied to.
EventInputs ==
    {[Type |-> t,
      Resource |-> [Kind |-> k, Name |-> n, Namespace |-> ns, Labels |-> ""]] :
        t \in {"CREATED", "UPDATED", "DELETED", "ADDED", ""},
        k \in {"Deployment", "Service", "Pod", "ConfigMap", "Unknown", ""},
        n \in {"web", ""}, ns \in {"default", ""}}

\* The methods of domain.ResourceClient.
ClientMethods == {"Connect", "WatchResources", "GetResource", "ApplyResource"}

\* A service that refuses the kinds it has no case for.
HandleResourceEventStrict(event) ==
    [err |-> IF event.Resource.Kind \in {"Deployment", "Service", "Pod"}
             THEN "nil" ELSE "unsupported kind",
     logged |-> <<"Handling resource event">>,
     clientCalls |-> {}]

\* resourceService.HandleResourceEvent: one log line for every event, one
\* more for a Deployment, a Service or a Pod; no call on s.client; nil.
HandleResourceEvent(event) ==
    [err |-> "nil",
     logged |-> <<"Handling resource event">>
                \o (CASE event.Resource.Kind = "Deployment" ->
                             <<"Deployment event detected">>
                      [] event.Resource.Kind = "Service" ->
                             <<"Service event detected">>
                      [] event.Resource.Kind = "Pod" -> <<"Pod event detected">>
                      [] OTHER -> <<>>),
     clientCalls |-> {}]

\* ResourceHandler.handleCreated / handleUpdated / handleDeleted: a log
\* line and nil.
handleCreated(resource) == [err |-> "nil", logged |-> <<"Resource created">>]

handleUpdated(resource) == [err |-> "nil", logged |-> <<"Resource updated">>]

handleDeleted(resource) == [err |-> "nil", logged |-> <<"Resource deleted">>]

\* ResourceHandler.HandleEvent: the switch on the event type; an unknown
\* type is logged as a warning and gives nil.
HandleEvent(event) ==
    CASE event.Type = "CREATED" -> handleCreated(event.Resource)
      [] event.Type = "UPDATED" -> handleUpdated(event.Resource)
      [] event.Type = "DELETED" -> handleDeleted(event.Resource)
      [] OTHER -> [err |-> "nil", logged |-> <<"Unknown event type">>]

\* The objects of the raw notifications: a Deployment before and after it
\* got its labels, and a value without metadata.
NotificationObjects ==
    {TypedDeployment("web", "default"),
     Object(TRUE, TRUE, "", "Deployment", "web", "default", "app=web"),
     NonObject}

\* The raw notifications the registered handler functions are applied to:
\* an add or a delete carries one object, an update the old and the new
\* one; only a delete may carry a tombstone.
NotificationInputs ==
    {[kind |-> k, old |-> Payload("object", o), new |-> Payload(shape, n)] :
        k \in {"add", "update", "delete"}, shape \in {"object", "tombstone"},
        o \in NotificationObjects, n \in NotificationObjects}

RealNotification(x) ==
    /\ x.new.shape = "tombstone" => x.kind = "delete"
    /\ x.kind # "update" => x.old.obj = x.new.obj
    /\ x.kind = "update" => (x.old.obj.meta /\ x.new.obj.meta)

\* An UpdateFunc that hands the old object to handleUpdateEvent as the new
\* one.
UpdateFuncOld(oldObj, newObj) == handleUpdateEvent(oldObj)

\* UpdateFunc of the registered cache.ResourceEventHandlerFuncs: it passes
\* oldObj and newObj on, and handleUpdateEvent reads newObj only.
UpdateFunc(oldObj, newObj) == handleUpdateEvent(newObj)

\* The calls of handler.HandleEvent one handler function makes, in order.
HandlerCalls(r) ==
    [calls |-> IF r.called THEN <<r.event>> ELSE <<>>, logged |-> r.logged]

\* cache.ResourceEventHandlerFuncs{AddFunc, UpdateFunc, DeleteFunc} as
\* setupInformer registers them, applied to one raw notification.
ResourceEventHandlerFuncs(kind, oldObj, newObj) ==
    HandlerCalls(CASE kind = "add" -> handleAddEvent(newObj)
                   [] kind = "update" -> UpdateFunc(oldObj, newObj)
                   [] OTHER -> handleDeleteEvent(newObj))

FunctionArgs ==
    {[fn |-> "convertToDomainResource", in |-> p] : p \in ConvertInputs}
    \cup {[fn |-> "ResourceEventHandlerFuncs", in |-> x] :
             x \in {y \in NotificationInputs : RealNotification(y)}}
    \cup {[fn |-> "getDeploymentsFromStore", in |-> x] : x \in StoreInputs}
    \cup {[fn |-> "ListDeployments", in |-> x] : x \in ReadInputs}
    \cup {[fn |-> "startInformers", in |-> x] : x \in StartInputs}
    \cup {[fn |-> "HandleResourceEvent", in |-> e] : e \in EventInputs}
    \cup {[fn |-> "HandleEvent", in |-> e] : e \in EventInputs}

\* One application of a function to the input drawn for it.
Apply(fn, out) ==
    /\ arg.fn = fn
    /\ result = NoResult
    /\ result' = [fn |-> fn, out |-> out]
    /\ UNCHANGED <<rvars, cvars, arg, kvars, avars, svars>>

ApplyConvert == Apply("convertToDomainResource", convertToDomainResource(arg.in))

ApplyStoreList ==
    Apply("getDeploymentsFromStore",
          getDeploymentsFromStore(arg.in.store, arg.in.namespace))

ApplyHandleResourceEvent ==
    Apply("HandleResourceEvent", HandleResourceEvent(arg.in))

ApplyHandleEvent == Apply("HandleEvent", HandleEvent(arg.in))

\* ListDeployments for a namespace with an informer: the error of the
\* store read and the response.
ApplyReadFromStore ==
    Apply("ListDeployments",
          [storeErr |-> getDeploymentsFromStore(arg.in.store,
                                                arg.in.namespace).err,
           response |-> ReadFromStore(arg.in.store, arg.in.namespace,
                                      arg.in.api)])

ApplyStartInformers ==
    Apply("startInformers",
          StartResult(arg.in.nss, arg.in.resources, arg.in.failNs))

ApplyHandlerFuncs ==
    Apply("ResourceEventHandlerFuncs",
          ResourceEventHandlerFuncs(arg.in.kind, arg.in.old, arg.in.new))

FunctionNext ==
    \/ ApplyHandlerFuncs
    \/ ApplyStartInformers
    \/ ApplyReadFromStore
    \/ ApplyConvert
    \/ ApplyStoreList
    \/ ApplyHandleResourceEvent
    \/ ApplyHandleEvent

(***************************************************************************)
(* Part V.  The configuration, NewKubernetesController and                 *)
(* KubernetesController.Run (internal/infrastructure/config, internal/app) *)
(***************************************************************************)

\* Bound on the ticks of the periodic health check in a behaviour.
MaxTicks == 1

\* A configuration key of viper: not set, or set to a comma-separated
\* string, held as the sequence of the pieces between its commas.
Unset == [set |-> FALSE, val |-> <<>>]

Setting(val) == [set |-> TRUE, val |-> val]

NamespaceSettings ==
    {Unset, Setting(<<"default">>), Setting(<<"default", " prod ">>),
     Setting(<<"prod">>), Setting(<<"">>)}

ResourceSettings ==
    {Unset, Setting(<<"deployments">>), Setting(<<"deployments", "pods">>)}

\* strings.TrimSpace on the pieces of the model.
TrimSpace(item) ==
    IF item = " prod " THEN "prod" ELSE IF item = " " THEN "" ELSE item

\* config.getStringSlice: the trimmed, non-empty pieces of the value.
getStringSlice(val) ==
    SelectSeq([i \in 1..Len(val) |-> TrimSpace(val[i])], LAMBDA x : x # "")

\* A *config.Config: nil, or the two lists of it the controller uses.
NilConfig == [nil |-> TRUE, namespaces |-> <<>>, resources |-> <<>>]

\* &config.Config{}
EmptyConfig == [nil |-> FALSE, namespaces |-> <<>>, resources |-> <<>>]

\* config.Default()
Default ==
    [nil |-> FALSE, namespaces |-> <<"default">>,
     resources |-> <<"deployments", "services">>]

\* config.Load(): the defaults, overridden by the keys that are set.
Load(settings) ==
    [nil |-> FALSE,
     namespaces |-> IF settings.namespaces.set
                    THEN getStringSlice(settings.namespaces.val)
                    ELSE Default.namespaces,
     resources |-> IF settings.resources.set
                   THEN getStringSlice(settings.resources.val)
                   ELSE Default.resources]

\* The config field of a controller that keeps the pointer it was given.
ConfigAsGiven(cfg) == cfg

\* NewKubernetesController(cfg): config.Default() replaces a nil cfg.
ConfigOrDefault(cfg) == IF cfg.nil THEN Default ELSE cfg

\* kubernetes.NewClient(): &kubeClient{}, whose config is nil.
NewClient == [config |-> NilConfig, eventHandler |-> "none"]

\* The controller the constructors return: a new client, the service and
\* the handler built on it, the handler set on the client, a cancellable
\* context and cfg.
BuiltController(cfg) ==
    [built |-> TRUE,
     client |-> [NewClient EXCEPT !.eventHandler = "resourceHandler"],
     resourceService |-> "resourceService",
     resourceHandler |-> "resourceHandler",
     ctx |-> "controller",
     cancelFunc |-> "cancel",
     config |-> cfg]

NoRun ==
    [pc |-> "idle", err |-> "none", watch |-> "none", watchErr |-> "none",
     reported |-> FALSE, health |-> "none", ticks |-> 0,
     watched |-> [namespaces |-> <<>>, resources |-> <<>>]]

KIdle ==
    /\ loaded = [namespaces |-> Unset, resources |-> Unset]
    /\ controller = NoController
    /\ run = NoRun

\* NewKubernetesController(cfg) as cmd control calls it, with the loaded
\* configuration or nil.
NewKubernetesController(cfg) ==
    /\ controller = NoController
    /\ controller' = BuiltController(ConfigOrDefault(cfg))
    /\ eventHandler' = TRUE
    /\ UNCHANGED <<rvars, pvars, avars, svars, dvars, loaded, run, clientset,
                   informerFactories, factories, ctxDone, call, returned,
                   upstream, log, delivered, response, routes>>

\* NewKubernetesController() that loads the configuration itself and takes
\* &config.Config{} when loading fails.
NewKubernetesControllerLoad(loadFails) ==
    /\ controller = NoController
    /\ controller' = BuiltController(IF loadFails THEN EmptyConfig
                                     ELSE Load(loaded))
    /\ eventHandler' = TRUE
    /\ UNCHANGED <<rvars, pvars, avars, svars, dvars, loaded, run, clientset,
                   informerFactories, factories, ctxDone, call, returned,
                   upstream, log, delivered, response, routes>>

\* KubernetesController.Run up to its wait: a failed Connect returns the
\* error; otherwise the watch goroutine and the health-check goroutine are
\* started and Run blocks on <-c.ctx.Done().
Run ==
    /\ controller # NoController
    /\ run.pc = "idle"
    /\ \E ok \in BOOLEAN :
          /\ clientset' = (clientset \/ ok)
          /\ run' = IF ok
                    THEN [run EXCEPT !.pc = "blocked", !.watch = "started",
                                     !.health = "running"]
                    ELSE [run EXCEPT !.pc = "returned", !.err = "connect"]
    /\ UNCHANGED <<rvars, pvars, avars, svars, dvars, loaded, controller, eventHandler,
                   informerFactories, factories, ctxDone, call, returned,
                   upstream, log, delivered, response, routes>>

\* kubeClient.WatchResources: the namespaces and the resources it hands to
\* startInformers are the defaults unless c.config is set and gives some.
WatchArgs(cfg) ==
    [namespaces |-> IF ~cfg.nil /\ Len(cfg.namespaces) > 0
                    THEN cfg.namespaces ELSE <<"default">>,
     resources |-> IF ~cfg.nil /\ Len(cfg.resources) > 0
                   THEN cfg.resources
                   ELSE <<"deployments", "services", "pods">>]

\* The goroutine of Run logs the error of WatchResources only when the
\* controller's context is not cancelled.
WatchReportedAlways(err, cancelled) == err # "nil"

WatchReported(err, cancelled) == err # "nil" /\ ~cancelled

\* The watch goroutine: resourceService.WatchResources(c.ctx) calls the
\* client's WatchResources, which starts the informers and, when that
\* succeeded, blocks on <-ctx.Done().
WatchBegin(failNs) ==
    /\ run.watch = "started"
    /\ LET a == WatchArgs(controller.client.config)
           r == StartResult(a.namespaces, a.resources, failNs)
       IN /\ subs' = subs \o r.subs
          /\ run' = IF r.err = "nil"
                    THEN [run EXCEPT !.watch = "blocked", !.watched = a]
                    ELSE [run EXCEPT !.watch = "exited", !.watched = a,
                                     !.watchErr = r.err,
                                     !.reported =
                                         WatchReported(r.err,
                                                       "controller" \in ctxDone)]
    /\ UNCHANGED <<rvars, pvars, avars, svars, loaded, controller, clientset, eventHandler,
                   informerFactories, factories, ctxDone, call, returned,
                   upstream, log, delivered, response, routes>>

\* The context is cancelled: WatchResources returns ctx.Err() and the
\* goroutine ends.
WatchEnd ==
    /\ run.watch = "blocked"
    /\ "controller" \in ctxDone
    /\ run' = [run EXCEPT !.watch = "exited", !.watchErr = "context canceled",
                          !.reported = WatchReported("context canceled",
                                                     "controller" \in ctxDone)]
    /\ UNCHANGED <<rvars, pvars, avars, svars, dvars, loaded, controller, clientset,
                   eventHandler, informerFactories, factories, ctxDone, call,
                   returned, upstream, log, delivered, response, routes>>

\* startPeriodicHealthCheck: the ticker fires and the check is logged.
HealthTick ==
    /\ run.health = "running"
    /\ run.ticks < MaxTicks
    /\ run' = [run EXCEPT !.ticks = @ + 1]
    /\ UNCHANGED <<rvars, pvars, avars, svars, dvars, loaded, controller, clientset,
                   eventHandler, informerFactories, factories, ctxDone, call,
                   returned, upstream, log, delivered, response, routes>>

\* startPeriodicHealthCheck: <-c.ctx.Done() is taken and the goroutine ends.
HealthEnd ==
    /\ run.health = "running"
    /\ "controller" \in ctxDone
    /\ run' = [run EXCEPT !.health = "exited"]
    /\ UNCHANGED <<rvars, pvars, avars, svars, dvars, loaded, controller, clientset,
                   eventHandler, informerFactories, factories, ctxDone, call,
                   returned, upstream, log, delivered, response, routes>>

\* Run: <-c.ctx.Done() is taken and Run returns nil.
RunReturn ==
    /\ run.pc = "blocked"
    /\ "controller" \in ctxDone
    /\ run' = [run EXCEPT !.pc = "returned", !.err = "nil"]
    /\ UNCHANGED <<rvars, pvars, avars, svars, dvars, loaded, controller, clientset,
                   eventHandler, informerFactories, factories, ctxDone, call,
                   returned, upstream, log, delivered, response, routes>>

\* The controller process from its construction to the return of Run.
RunNext ==
    \/ \E cfg \in {NilConfig, Load(loaded)} : NewKubernetesController(cfg)
    \/ \E loadFails \in BOOLEAN : NewKubernetesControllerLoad(loadFails)
    \/ Run
    \/ \E failNs \in {"", "default"} : WatchBegin(failNs)
    \/ WatchEnd
    \/ HealthTick
    \/ HealthEnd
    \/ Stop
    \/ RunReturn

(***************************************************************************)
(* Part VI.  The accesses to the registry c.informerFactories              *)
(***************************************************************************)

\* c.informerFactories is a plain Go map, written by the goroutine that
\* Server.SetupRoutes starts and read by the request handlers, with no lock
\* around either.  An access takes time: it begins and it ends.
NoAccess ==
    [goroutine |-> "none", writer |-> "none", reader |-> "none",
     raced |-> FALSE]

AIdle == access = NoAccess

\* The Go runtime found a map read and a map write at the same time and
\* ended the process.
FatalResponse ==
    [status |-> "fatal", namespace |-> "", items |-> {}, count |-> 0,
     source |-> "concurrent map read and map write", queried |-> FALSE]

\* Server.SetupRoutes: Connect, the go statement of the goroutine that will
\* call InitializeInformers, and the routes, whatever Connect returned.
SetupRoutesGo ==
    /\ ~routes
    /\ access.goroutine = "none"
    /\ \E ok \in BOOLEAN : clientset' = (clientset \/ ok)
    /\ routes' = TRUE
    /\ access' = [access EXCEPT !.goroutine = "spawned"]
    /\ UNCHANGED <<rvars, pvars, kvars, svars, dvars, eventHandler, informerFactories,
                   factories, ctxDone, call, returned, upstream, log, delivered,
                   response>>

\* The goroutine calls InitializeInformers on a client that is not
\* connected.
GoInitializeFail ==
    /\ access.goroutine = "spawned"
    /\ ~clientset
    /\ InitializeFail("SetupRoutesAsync")
    /\ access' = [access EXCEPT !.goroutine = "done"]
    /\ UNCHANGED <<rvars, pvars, kvars, svars, dvars, clientset, eventHandler, ctxDone,
                   upstream, log, delivered, response, routes>>

\* The goroutine reaches c.informerFactories[namespace] = factory: the map
\* write begins.
RegistryWriteBegin ==
    /\ access.goroutine = "spawned"
    /\ clientset
    /\ call.pc = "idle"
    /\ access' = [access EXCEPT !.goroutine = "writing", !.writer = "default",
                                !.raced = (access.reader # "none")]
    /\ UNCHANGED <<rvars, pvars, kvars, svars, cvars>>

\* The map write ends: the factory is registered and started, and the
\* goroutine goes on to the wait of InitializeInformers.
RegistryWriteEnd ==
    /\ access.goroutine = "writing"
    /\ InitializeStart("SetupRoutesAsync", "background", {access.writer})
    /\ access' = [access EXCEPT !.goroutine = "done", !.writer = "none"]
    /\ UNCHANGED <<rvars, pvars, kvars, svars, dvars, clientset, eventHandler, ctxDone,
                   upstream, log, delivered, response, routes>>

\* A request handler enters GetDeploymentInformer: the map read
\* c.informerFactories[namespace] begins.
LookupBegin(ns) ==
    /\ routes
    /\ access.reader = "none"
    /\ access' = [access EXCEPT !.reader = ns,
                                !.raced = (access.writer # "none")]
    /\ UNCHANGED <<rvars, pvars, kvars, svars, cvars>>

\* The map read ends and the handler answers.  A read that ran beside the
\* write is a data race: it sees the map before or after the write, or the
\* runtime ends the process.
LookupEnd ==
    /\ access.reader # "none"
    /\ access' = [access EXCEPT !.reader = "none", !.raced = FALSE]
    /\ \E apiFails \in BOOLEAN, fatal \in BOOLEAN :
          /\ fatal => (access.raced \/ access.writer # "none")
          /\ IF fatal
             THEN /\ response' = FatalResponse
                  /\ routes' = FALSE
                  /\ ctxDone' = Contexts
             ELSE /\ response' = ListResponse(access.reader, apiFails)
                  /\ UNCHANGED <<routes, ctxDone>>
    /\ UNCHANGED <<rvars, pvars, kvars, svars, dvars, clientset, eventHandler,
                   informerFactories, factories, call, returned, upstream, log,
                   delivered>>

\* The server process with the accesses to the registry as steps of their
\* own.
RegistryNext ==
    \/ SetupRoutesGo
    \/ GoInitializeFail
    \/ RegistryWriteBegin
    \/ RegistryWriteEnd
    \/ SyncDeadline
    \/ InitializeReturn
    \/ \E ns \in Namespaces : LookupBegin(ns)
    \/ LookupEnd
    \/ Background

\* The reconciler at rest, for the behaviours of the client and the server.
RIdle == RInit /\ rService

\* The client as NewClient leaves it, beside a reconciler at rest.
Init == CInit /\ RIdle /\ PIdle /\ KIdle /\ AIdle /\ SIdle

\* One input drawn for one function.
FunctionInit ==
    /\ CInit /\ RIdle /\ KIdle /\ AIdle /\ SIdle
    /\ arg \in FunctionArgs
    /\ result = NoResult

\* The process started with one of the configurations.
RunInit ==
    /\ CInit /\ RIdle /\ PIdle /\ AIdle /\ SIdle
    /\ loaded \in {[namespaces |-> n, resources |-> r] :
                       n \in NamespaceSettings, r \in ResourceSettings}
    /\ controller = NoController
    /\ run = NoRun

\* The reconciler as NewDeploymentReconciler leaves it, beside a new client.
ReconcileInit == RInit /\ CInit /\ PIdle /\ KIdle /\ AIdle /\ SIdle

Spec == Init /\ [][Next]_vars

SpecWatch == Init /\ [][WatchNext]_vars

SpecReconcile == ReconcileInit /\ [][RNext]_vars

SpecDispatch == Init /\ [][DispatchNext]_vars

SpecRegistry == Init /\ [][RegistryNext]_vars

SpecClient == Init /\ [][ClientNext]_vars

SpecStop == Init /\ [][StopNext]_vars

SpecFunctions == FunctionInit /\ [][FunctionNext]_vars

SpecRun == RunInit /\ [][RunNext]_vars

\* The scheduler runs every goroutine that can take a step, and Run itself.
SpecRunFair ==
    /\ SpecRun
    /\ WF_vars(RunReturn)
    /\ WF_vars(WatchEnd)
    /\ WF_vars(HealthEnd)
    /\ WF_vars(\E failNs \in {"", "default"} : WatchBegin(failNs))

(***************************************************************************)
(* Claims about the reconciler, checked under SpecReconcile.               *)
(***************************************************************************)

Attempted(id) == rLast[id].trigger # "none"

\* C1: an attempt whose fetch returns NotFound ends in Done: empty result,
\* nil error, the business step is not invoked and the attempt issues no
\* requeue.
C1_NotFoundIsDone ==
    \A id \in Requests :
        (Attempted(id) /\ rLast[id].fetch = "notfound") =>
            /\ rLast[id].result = EmptyResult
            /\ rLast[id].err = "nil"
            /\ ~rLast[id].processed
            /\ rLast[id].scheduled = <<>>

\* C1 witness: a deleted Deployment has been reconciled.
C1_Witness ==
    \E id \in Requests :
        Attempted(id) /\ rLast[id].fetch = "notfound" /\ ~rObject[id]

\* C2: a found object whose business step fails yields exactly one requeue,
\* after the fixed 30 s, and a nil error; a later retry that finds the object
\* and succeeds returns Done and leaves no retry pending for the identity.
C2_FailureRetriesOnce ==
    \A id \in Requests :
        /\ (rLast[id].fetch = "found" /\ rLast[id].step = "fail") =>
              /\ rLast[id].err = "nil"
              /\ rLast[id].scheduled =
                     <<[kind |-> "after", delay |-> RequeueAfterSeconds]>>
        /\ (rLast[id].trigger = "retry-after" /\ rLast[id].fetch = "found"
              /\ rLast[id].step = "ok") =>
              /\ rLast[id].result = EmptyResult
              /\ rLast[id].err = "nil"
              /\ rLast[id].scheduled = <<>>
              /\ rTimer[id] = NoTimer

\* C2 witness: the 30 s retry of a failed business step ran and succeeded.
C2_Witness ==
    \E id \in Requests :
        /\ rLast[id].trigger = "retry-after"
        /\ rLast[id].fetch = "found"
        /\ rLast[id].step = "ok"
        /\ rTimer[id] = NoTimer

\* C3 (as claimed): a fetch error other than NotFound is surfaced and its
\* retry is scheduled with the fixed 30 s delay of business-step failures.
C3_Original ==
    \A id \in Requests :
        rLast[id].fetch = "error" =>
            /\ rLast[id].err # "nil"
            /\ rLast[id].scheduled =
                   <<[kind |-> "after", delay |-> RequeueAfterSeconds]>>

\* C3 (amended): a fetch error other than NotFound is surfaced with an empty
\* result; the one retry it causes is the caller's rate-limited requeue of
\* the returned error, not the fixed 30 s delay, and the retry fetches again.
C3_FetchErrorSurfaced ==
    \A id \in Requests :
        rLast[id].fetch = "error" =>
            /\ rLast[id].err = "get"
            /\ rLast[id].result = EmptyResult
            /\ ~rLast[id].processed
            /\ rLast[id].scheduled = <<[kind |-> "ratelimited", delay |-> 0]>>

\* C3 witness: the rate-limited retry of a fetch error fetched again and
\* failed again (Fetching -> ScheduledRetry -> Fetching).
C3_Witness ==
    \E id \in Requests :
        /\ rLast[id].trigger = "retry-ratelimited"
        /\ rLast[id].fetch = "error"
        /\ rTimer[id].kind = "ratelimited"

(***************************************************************************)
(* Claims about the read path and the informers of the server process,     *)
(* checked under Spec.                                                     *)
(***************************************************************************)

HasStore(ns) == informerFactories[ns] # 0

ReadFactory(ns) == factories[informerFactories[ns]]

StoreReadFails(ns) ==
    getDeploymentsFromStore(ReadFactory(ns).store, ns).err # "nil"

\* C4 (as claimed): a list request queries the remote API exactly when no
\* store exists or the store read fails; a success reports api, api-fallback
\* or cache accordingly.
C4_Original ==
    [][\A ns \in Namespaces :
          ListDeployments(ns) =>
              /\ response'.queried <=> (~HasStore(ns) \/ StoreReadFails(ns))
              /\ response'.status = "success" =>
                    response'.source =
                        IF ~HasStore(ns) THEN "api"
                        ELSE IF StoreReadFails(ns) THEN "api-fallback"
                        ELSE "cache"]_vars

\* C4 (amended): on a connected client a list request queries the remote API
\* exactly when no store exists for the namespace; a store read never fails,
\* so a request with a store succeeds from the store with source
\* informer-cache and api-fallback is never reported; without a store a
\* success has source api; a client that is not connected and has no store
\* answers with an error and queries nothing.
C4_Provenance ==
    [][\A ns \in Namespaces :
          ListDeployments(ns) =>
              /\ response'.namespace = ns
              /\ response'.queried <=> (~HasStore(ns) /\ clientset)
              /\ HasStore(ns) =>
                    /\ response'.status = "success"
                    /\ response'.source = "informer-cache"
                    /\ response'.items =
                           {DomainDeployment(o) : o \in ReadFactory(ns).store}
              /\ (~HasStore(ns) /\ response'.status = "success") =>
                    /\ response'.source = "api"
                    /\ response'.items =
                           {DomainDeployment(o) : o \in upstream[ns]}
              /\ (~HasStore(ns) /\ ~clientset) => response'.status = "error"
              /\ response'.source # "api-fallback"]_vars

\* C4 witness: a list of one namespace was answered from the remote API while
\* another namespace has a store.
C4_Witness ==
    /\ response.status = "success"
    /\ response.source = "api"
    /\ response.queried
    /\ ~HasStore(response.namespace)
    /\ \E n \in Namespaces : HasStore(n)

\* The wait of the InitializeInformers call in progress, as claimed: over
\* the namespaces the call was given.
RequestedSynced ==
    \A n \in call.requested : HasStore(n) /\ ReadFactory(n).synced

\* C5 (as claimed): the call returns as soon as all requested namespaces
\* have synced or the 5 s deadline elapses, returns nil, and leaves every
\* requested namespace registered.
C5_Original ==
    [][/\ (call.pc = "waiting" /\ (RequestedSynced \/ call.timedOut)) =>
              ENABLED InitializeReturn
       /\ InitializeReturn =>
              /\ returned' = "nil"
              /\ \A n \in call.requested : informerFactories'[n] # 0]_vars

\* C5 (amended): on a connected client InitializeInformers returns nil for
\* every outcome of the initial sync; it returns as soon as every namespace
\* registered on the client, by this call or an earlier one, has synced, or
\* when the 5 s deadline elapses (or its context is done), and not before;
\* an unsynced namespace causes no error and is registered at the return.
C5_ReturnsNil ==
    [][/\ (call.pc = "waiting" /\ (AllRegisteredSynced \/ call.timedOut)) =>
              ENABLED InitializeReturn
       /\ (call.pc = "waiting" /\ ~AllRegisteredSynced /\ ~call.timedOut
              /\ call.ctx \notin ctxDone) => ~ENABLED InitializeReturn
       /\ (clientset /\ call.pc = "idle" /\ call'.pc = "idle") =>
              returned' = returned
       /\ InitializeReturn =>
              /\ returned' = "nil"
              /\ call'.pc = "idle"
              /\ \A n \in call.requested :
                    /\ informerFactories'[n] # 0
                    /\ informerFactories'[n] = informerFactories[n]]_vars

\* C5 witness: a call has returned nil on its deadline and left a registered
\* namespace whose initial listing has not completed.
C5_Witness ==
    /\ call.pc = "idle"
    /\ returned = "nil"
    /\ \E n \in Namespaces : HasStore(n) /\ ~ReadFactory(n).synced

\* C6: once InitializeInformers has returned for a namespace, its informer
\* keeps running (nothing shuts the server down in these behaviours).
C6_KeepsRunning ==
    \A n \in Namespaces :
        (call.pc = "idle" /\ HasStore(n)) => Running(informerFactories[n])

\* C6 witness of the failure: the routes are up, the informer of "default"
\* is stopped before its first listing, the cluster holds a Deployment and
\* the list answers from the store with no item.
C6_Witness ==
    /\ routes
    /\ HasStore("default")
    /\ ~Running(informerFactories["default"])
    /\ ~ReadFactory("default").synced
    /\ upstream["default"] # {}
    /\ response.status = "success"
    /\ response.namespace = "default"
    /\ response.source = "informer-cache"
    /\ response.count = 0

Web21 == Deployment("default", "web", <<2, 1>>)

\* "default" holds exactly web (2 desired, 1 ready) and the informer of
\* "default" has completed its sync on that state.
SyncedOnWeb ==
    /\ upstream["default"] = {Web21}
    /\ call.pc = "idle"
    /\ HasStore("default")
    /\ ReadFactory("default").synced
    /\ ReadFactory("default").pos = Len(log["default"])

\* C7 (as claimed): in that state a list of "default" returns the one item
\* web with Replicas 2 and ReadyReplicas 1, with source cache.
C7_Original ==
    [][(ListDeployments("default") /\ SyncedOnWeb) =>
          /\ response'.items = {[Name |-> "web", Namespace |-> "default",
                                 Replicas |-> 2, ReadyReplicas |-> 1]}
          /\ response'.source = "cache"]_vars

\* C7 (amended): in that state a list of "default" returns exactly the one
\* item web with Replicas 2 (the desired count) and ReadyReplicas 1 (from the
\* status), with source informer-cache.
C7_ListAfterSync ==
    [][(ListDeployments("default") /\ SyncedOnWeb) =>
          /\ response'.status = "success"
          /\ response'.count = 1
          /\ response'.items = {[Name |-> "web", Namespace |-> "default",
                                 Replicas |-> 2, ReadyReplicas |-> 1]}
          /\ response'.source = "informer-cache"
          /\ ~response'.queried]_vars

\* C7 witness: the list of the synced namespace has been answered.
C7_Witness ==
    /\ SyncedOnWeb
    /\ response.status = "success"
    /\ response.namespace = "default"
    /\ response.count = 1
    /\ response.source = "informer-cache"

DeletedEvents(name) ==
    {i \in 1..Len(delivered) :
        delivered[i].Type = "DELETED" /\ delivered[i].Resource.Name = name}

\* C8: the last list of "default" returned web from the store and web has
\* since been deleted upstream: the next list returns no item and exactly one
\* Deleted event for web has been delivered to the handler.
C8_DeleteThenList ==
    [][(/\ ListDeployments("default")
        /\ response.status = "success"
        /\ response.namespace = "default"
        /\ response.source = "informer-cache"
        /\ \E i \in response.items : i.Name = "web"
        /\ upstream["default"] = {}
        /\ Len(log["default"]) > 0
        /\ log["default"][Len(log["default"])].type = "delete") =>
          /\ response'.status = "success"
          /\ response'.count = 0
          /\ Cardinality(DeletedEvents("web")) = 1]_vars

\* The entry the notifications seq[1..k] leave for the identity `name`: the
\* object of the last create or update, nothing after a delete.
LastIndex(seq, k, name) ==
    LET idx == {i \in 1..k : seq[i].obj.name = name}
    IN IF idx = {} THEN 0 ELSE CHOOSE i \in idx : \A j \in idx : j <= i

FinalEntry(seq, k, name) ==
    LET i == LastIndex(seq, k, name)
    IN IF i = 0 \/ seq[i].type = "delete" THEN {} ELSE {seq[i].obj}

\* C9: the store of every synced informer holds, for every identity, what
\* the notifications it has applied leave when applied one by one in order:
\* the whole object of the last create or update, no entry after a delete.
C9_SequentialApplication ==
    \A f \in 1..Len(factories) :
        factories[f].synced =>
            \A name \in Names :
                {o \in factories[f].store : o.name = name}
                    = FinalEntry(log[factories[f].ns], factories[f].pos, name)

\* C9 witness: the one informer ever created served web (2, 1) from its
\* store and has since applied an update that changed both fields.
C9_Witness ==
    /\ Len(factories) = 1
    /\ factories[1].ns = "default"
    /\ response.status = "success"
    /\ response.source = "informer-cache"
    /\ response.items = {DomainDeployment(Web21)}
    /\ factories[1].pos = 2
    /\ log["default"][2].type = "update"
    /\ factories[1].store = {Deployment("default", "web", <<3, 3>>)}

(***************************************************************************)
(* Claims about the controller process, checked under SpecWatch.           *)
(***************************************************************************)

\* C10: the store the read path uses for a namespace holds what a prefix of
\* the namespace's notifications leaves, and that prefix is never behind the
\* notifications whose events the handler has already received.
C10_OneSequence ==
    \A n \in Namespaces :
        HasStore(n) =>
            /\ \A name \in Names :
                  {o \in ReadFactory(n).store : o.name = name}
                      = FinalEntry(log[n], ReadFactory(n).pos, name)
            /\ \A f \in 1..Len(factories) :
                  (factories[f].handlers /\ factories[f].ns = n) =>
                      factories[f].dpos <= ReadFactory(n).pos

(***************************************************************************)
(* Claims about the handler functions and startInformers, checked under    *)
(* SpecDispatch.                                                           *)
(***************************************************************************)

\* The records of the notifications processed so far, of every registration.
Records == {<<s, i>> : s \in 1..Len(subs), i \in 1..MaxNotifications + 1}

Processed == {x \in Records : x[2] <= Len(subs[x[1]].done)}

RecordAt(x) == subs[x[1]].done[x[2]]

\* The resource that carries the identity, the labels and a kind of object o.
CarriesSnapshot(resource, o) ==
    /\ resource.Name = o.name
    /\ resource.Namespace = o.namespace
    /\ resource.Labels = o.labels
    /\ resource.Name # ""
    /\ resource.Namespace # ""
    /\ resource.Kind # ""

\* C11: a delete notification whose payload is a tombstone wrapping an
\* object with metadata is delivered as a Deleted event whose Resource has
\* non-empty Name, Namespace and Kind, with Name, Namespace and Labels those
\* of the wrapped object.
C11_TombstoneUnwrapped ==
    \A x \in Processed :
        LET d == RecordAt(x)
        IN (d.kind = "delete" /\ d.payload.shape = "tombstone"
                /\ d.payload.obj.meta) =>
              /\ d.called
              /\ d.event.Type = "DELETED"
              /\ CarriesSnapshot(d.event.Resource, d.payload.obj)

\* C11 witness: the handler has received the Deleted event of a tombstone.
C11_Witness ==
    \E x \in Processed :
        /\ RecordAt(x).kind = "delete"
        /\ RecordAt(x).payload.shape = "tombstone"
        /\ RecordAt(x).called
        /\ RecordAt(x).event.Resource.Labels = "app=web"

\* C12: every raw notification a handler function has processed resulted in
\* a ResourceEvent delivered to the handler.
C12_NeverDropped ==
    \A x \in Processed : RecordAt(x).called

\* C13: every Deleted event that reached the handler carries the last known
\* object, handed over directly or in a tombstone: its Resource is never
\* domain.Resource{}.
C13_DeletedCarriesSnapshot ==
    \A x \in Processed :
        LET d == RecordAt(x)
        IN (d.called /\ d.event.Type = "DELETED") =>
              /\ d.event.Resource # ZeroResource
              /\ d.payload.obj.meta
              /\ CarriesSnapshot(d.event.Resource, d.payload.obj)

\* C13 witness: the handler has received a Deleted event for a direct
\* payload and one for a tombstone.
C13_Witness ==
    /\ \E x \in Processed :
          /\ RecordAt(x).called
          /\ RecordAt(x).event.Type = "DELETED"
          /\ RecordAt(x).payload.shape = "object"
    /\ \E x \in Processed :
          /\ RecordAt(x).called
          /\ RecordAt(x).event.Type = "DELETED"
          /\ RecordAt(x).payload.shape = "tombstone"

C15_HandlerFailureContinues ==
    \A s \in 1..Len(subs) :
        /\ \A i \in 1..Len(subs[s].done) :
              LET d == subs[s].done[i]
              IN /\ d.failed => (d.called /\ d.logged = "Failed to handle event")
                 /\ ~d.called => d.logged # ""
                 /\ \A j \in 1..Len(subs[s].done) :
                       j # i => subs[s].done[j].rv # d.rv
                 /\ \A q \in 1..Len(subs[s].queue) : subs[s].queue[q].rv # d.rv
        /\ (~subs[s].busy /\ subs[s].queue # <<>>) => ENABLED HandleBegin(s)
        /\ subs[s].busy => ENABLED HandleEnd(s, FALSE)

\* C15 witness: after a handler error the same registration has delivered
\* its next event.
C15_Witness ==
    \E s \in 1..Len(subs) :
        /\ Len(subs[s].done) >= 2
        /\ subs[s].done[1].failed
        /\ subs[s].done[2].called
        /\ ~subs[s].done[2].failed

\* The listener of registration s is inside handler.HandleEvent.
InHandler(s) ==
    /\ subs[s].busy
    /\ HandlerFunc(NextNotification(subs[s].queue).kind,
                   NextNotification(subs[s].queue).payload).called

\* C16: the handler never executes two events of the same (namespace, kind)
\* pair at the same time, and a listener that is free is never held up by
\* the handler call of another.
C16_SerializedPerPair ==
    /\ \A s, t \in 1..Len(subs) :
          (s # t /\ InHandler(s) /\ InHandler(t)) =>
              <<subs[s].ns, subs[s].resource>> # <<subs[t].ns, subs[t].resource>>
    /\ \A s \in 1..Len(subs) :
          (~subs[s].busy /\ subs[s].queue # <<>>) => ENABLED HandleBegin(s)

\* C19: when the setup of one namespace fails in a startInformers call,
\* every other namespace of the call still gets its informers configured
\* and started.
C19_OtherNamespacesStart ==
    [][\A nss \in StartNamespaces, resources \in StartResources,
          failNs \in Namespaces :
            startInformers(nss, resources, failNs) =>
                \A i \in 1..Len(nss) :
                    nss[i] # failNs =>
                        \E k \in (Len(subs) + 1)..Len(subs') :
                            subs'[k].ns = nss[i]]_vars

(***************************************************************************)
(* Claims about the lifetime of the informer factories (Spec, SpecWatch)   *)
(* and of the controller manager (SpecReconcile).                          *)
(***************************************************************************)

\* C17: the factory registered for a namespace stays the same object in
\* every later state: no later call replaces it.
C17_FactoryNeverReplaced ==
    [][\A n \in Namespaces :
          HasStore(n) => informerFactories'[n] = informerFactories[n]]_vars

\* The watch loops running for namespace n.
RunningLoops(n) ==
    {f \in 1..Len(factories) : factories[f].ns = n /\ Running(f)}

\* C18: at most one watch+resync task runs per namespace.
C18_OneLoopPerNamespace ==
    \A n \in Namespaces : Cardinality(RunningLoops(n)) <= 1

\* C20: once ControllerRuntime.Stop has returned, no pending retry fires and
\* no Reconcile attempt is started.
C20_NoWorkAfterStop ==
    [][stopped =>
          ~(\E id \in Requests : RetryDue(id) \/ ReconcileAttempt(id))]_vars

(***************************************************************************)
(* Claims about the functions of the read path, the converter and the      *)
(* event handlers, checked under SpecFunctions.                            *)
(***************************************************************************)

\* How often the listing holds the item of store object o.
TimesListed(list, o) ==
    Cardinality({i \in 1..Len(list) :
                    list[i].Name = o.name /\ list[i].Namespace = o.namespace})

\* C22: for every store and every non-empty requested namespace N, every
\* item the store-backed listing returns has Namespace N, every Deployment
\* of the store in N is returned exactly once, and a Deployment of another
\* namespace is never returned.
C22_NamespaceFilter ==
    (result.fn = "getDeploymentsFromStore" /\ arg.in.namespace # "") =>
        LET N == arg.in.namespace
            list == result.out.list
        IN /\ result.out.err = "nil"
           /\ \A i \in 1..Len(list) : list[i].Namespace = N
           /\ \A o \in arg.in.store :
                 /\ TimesListed(list, o) = IF o.namespace = N THEN 1 ELSE 0
                 /\ o.namespace = N =>
                       \E i \in 1..Len(list) : list[i] = DomainDeployment(o)
           /\ Len(list) = Cardinality({o \in arg.in.store : o.namespace = N})

\* C22 witness: a store holding Deployments of both namespaces was listed
\* for "default" and two items were returned.
C22_Witness ==
    /\ result.fn = "getDeploymentsFromStore"
    /\ arg.in.namespace = "default"
    /\ \E o \in arg.in.store : o.namespace = "prod"
    /\ Len(result.out.list) = 2

\* C23: for every object with metadata the converter gives the kind of the
\* object's own type information when it has some, else the kind of the
\* type lookup (Pod, Service, Deployment, ConfigMap), and Unknown for a
\* type outside the table; the Resource is never the zero value, and Name,
\* Namespace and Labels are those of the object's metadata.
C23_KindAndMetadata ==
    (result.fn = "convertToDomainResource" /\ arg.in.obj.meta) =>
        LET o == arg.in.obj
            r == result.out
        IN /\ r.Kind = (IF o.gvk # "" THEN o.gvk
                        ELSE IF o.type \in TableTypes THEN o.type
                        ELSE "Unknown")
           /\ r # ZeroResource
           /\ r.Name = o.name
           /\ r.Namespace = o.namespace
           /\ r.Labels = o.labels

\* C23 witness: a typed object outside the table, without type
\* information, was converted to kind Unknown with its labels.
C23_Witness ==
    /\ result.fn = "convertToDomainResource"
    /\ arg.in.obj.type = "Secret"
    /\ arg.in.obj.gvk = ""
    /\ result.out.Kind = "Unknown"
    /\ result.out.Labels = "app=web"

\* C27: HandleResourceEvent returns nil for every event, whatever its kind
\* and type, and calls no method of the client; HandleEvent returns nil for
\* an event type it has no case for.
C27_EventsReturnNil ==
    /\ result.fn = "HandleResourceEvent" =>
          /\ result.out.err = "nil"
          /\ result.out.clientCalls \cap ClientMethods = {}
    /\ (result.fn = "HandleEvent"
          /\ arg.in.Type \notin {"CREATED", "UPDATED", "DELETED"}) =>
          result.out.err = "nil"

\* C27 witness: the service has handled an event of type ADDED for a kind
\* it has no case for.
C27_Witness ==
    /\ result.fn = "HandleResourceEvent"
    /\ arg.in.Type = "ADDED"
    /\ arg.in.Resource.Kind = "ConfigMap"
    /\ result.out.err = "nil"

\* C32: for every store content, items that are no Deployments included,
\* the store read returns a nil error and skips those items; the read of a
\* namespace with an informer is then a success from the store with source
\* informer-cache, never api-fallback and never an error, and the remote
\* API is not queried, whatever it would have answered.
C32_StoreReadNeverFails ==
    result.fn = "ListDeployments" =>
        LET r == result.out.response
        IN /\ result.out.storeErr = "nil"
           /\ r.status = "success"
           /\ r.source = "informer-cache"
           /\ r.source # "api-fallback"
           /\ ~r.queried
           /\ r.items = {DomainDeployment(o) :
                            o \in {x \in arg.in.store :
                                      /\ x.type = "Deployment"
                                      /\ x.namespace = arg.in.namespace}}
           /\ r.count = Cardinality(r.items)

\* C32 witness: a store holding a Deployment and an item that is no
\* Deployment, both of the requested namespace, was read while the remote
\* API would have failed; the response is the Deployment alone, from the
\* store.
C32_Witness ==
    /\ result.fn = "ListDeployments"
    /\ arg.in.api.err # "nil"
    /\ \E x \in arg.in.store :
          x.type # "Deployment" /\ x.namespace = arg.in.namespace
    /\ result.out.response.status = "success"
    /\ result.out.response.count = 1
    /\ result.out.response.source = "informer-cache"

\* How often the sequence seq holds an element that satisfies Test.
CountOf(seq, Test(_)) == Cardinality({i \in 1..Len(seq) : Test(seq[i])})

\* C36: when no AddEventHandler call fails, startInformers returns nil
\* whatever resource type names it is given, starts the factory of every
\* requested namespace in order, registers no handler for a name outside
\* pod(s), service(s), deployment(s), configmap(s), and registers the
\* handlers of every other requested name in every requested namespace,
\* once per occurrence in the list.
C36_UnsupportedSkipped ==
    (result.fn = "startInformers" /\ arg.in.failNs \notin Namespaces) =>
        LET in == arg.in
            out == result.out
            known == {"pods", "pod", "services", "service", "deployments",
                      "deployment", "configmaps", "configmap"}
        IN /\ out.err = "nil"
           /\ out.started = in.nss
           /\ \A k \in 1..Len(out.subs) : out.subs[k].resource \in known
           /\ \A i \in 1..Len(in.nss) : \A r \in ResourceNames :
                 CountOf(out.subs,
                         LAMBDA x : x.ns = in.nss[i] /\ x.resource = r)
                   = IF r \in known
                     THEN CountOf(in.resources, LAMBDA y : y = r) ELSE 0

\* C36 witness: startInformers was given secrets between deployments and
\* pod for two namespaces; it returned nil with four registrations and
\* both factories started.
C36_Witness ==
    /\ result.fn = "startInformers"
    /\ arg.in.resources = <<"deployments", "secrets", "pod">>
    /\ arg.in.nss = <<"default", "prod">>
    /\ result.out.err = "nil"
    /\ Len(result.out.subs) = 4
    /\ result.out.started = <<"default", "prod">>

\* The event type of a kind of raw notification (domain.ResourceEventCreated,
\* ResourceEventUpdated, ResourceEventDeleted).
EventTypeOf(kind) ==
    CASE kind = "add" -> "CREATED"
      [] kind = "update" -> "UPDATED"
      [] OTHER -> "DELETED"

\* C31: a raw notification whose object carries metadata makes exactly one
\* call of handler.HandleEvent; the event has the type of the notification
\* (add: CREATED, update: UPDATED, delete: DELETED) and its Resource has the
\* name, namespace and labels of the notification's object, for an update
\* those of the new object.
C31_OneMatchingEvent ==
    (result.fn = "ResourceEventHandlerFuncs" /\ arg.in.new.obj.meta) =>
        /\ Len(result.out.calls) = 1
        /\ result.out.calls[1].Type = EventTypeOf(arg.in.kind)
        /\ result.out.calls[1].Resource.Name = arg.in.new.obj.name
        /\ result.out.calls[1].Resource.Namespace = arg.in.new.obj.namespace
        /\ result.out.calls[1].Resource.Labels = arg.in.new.obj.labels
        /\ result.out.calls[1].Resource.Kind = "Deployment"

\* C31 witness: an update whose old object has no labels and whose new
\* object has some was handed to the handler as one UPDATED event with the
\* labels.
C31_Witness ==
    /\ result.fn = "ResourceEventHandlerFuncs"
    /\ arg.in.kind = "update"
    /\ arg.in.old.obj.labels = ""
    /\ arg.in.new.obj.labels = "app=web"
    /\ Len(result.out.calls) = 1
    /\ result.out.calls[1].Type = "UPDATED"
    /\ result.out.calls[1].Resource.Labels = "app=web"

(***************************************************************************)
(* Claims about the controller process, checked under SpecRun and          *)
(* SpecRunFair.                                                            *)
(***************************************************************************)

\* C28: the controller a constructor returns has a client, a resource
\* service, a resource handler, a context, a cancel function and a non-nil
\* config, also when no configuration could be loaded; its context is not
\* cancelled when it is returned, and its resource handler is the event
\* handler set on its client.
C28_ControllerComplete ==
    [][controller' # NoController =>
          /\ controller'.client.eventHandler = controller'.resourceHandler
          /\ controller'.resourceHandler = "resourceHandler"
          /\ controller'.resourceService = "resourceService"
          /\ controller'.cancelFunc = "cancel"
          /\ controller'.ctx \in Contexts
          /\ ~controller'.config.nil
          /\ eventHandler'
          /\ controller = NoController => controller'.ctx \notin ctxDone']_vars

\* C28 witness: a controller was built after a failed load of a
\* configuration that names two namespaces.
C28_Witness ==
    /\ controller # NoController
    /\ controller.config = EmptyConfig
    /\ Len(loaded.namespaces.val) = 2

\* The list a configuration stands for: its own, or the default when it
\* gives none.
Configured(list, default) == IF Len(list) > 0 THEN list ELSE default

\* C29: the namespaces and the resource types the controller starts its
\* watch loops for are those of its configuration, the defaults only when
\* the configuration gives none.
C29_WatchesConfigured ==
    run.watch = "blocked" =>
        /\ run.watched.namespaces =
               Configured(controller.config.namespaces, Default.namespaces)
        /\ run.watched.resources =
               Configured(controller.config.resources, Default.resources)
        /\ {subs[i].ns : i \in 1..Len(subs)} =
               {controller.config.namespaces[i] :
                   i \in 1..Len(controller.config.namespaces)}

C30_UnsyncedServedAsCache ==
    [][\A ns \in Namespaces :
          (ListDeployments(ns) /\ HasStore(ns) /\ ~ReadFactory(ns).synced) =>
              /\ response' =
                     SuccessResponse(ns,
                         {DomainDeployment(o) : o \in ReadFactory(ns).store},
                         StoreSource, FALSE)
              /\ response'.count = 0
              /\ ~response'.queried]_vars

\* C30 witness: InitializeInformers has returned nil on its deadline, the
\* informer of "default" has not listed yet, the cluster holds a Deployment
\* in "default", and the list of "default" was answered with no item and
\* the source of a cache read.
C30_Witness ==
    /\ call.pc = "idle"
    /\ returned = "nil"
    /\ HasStore("default")
    /\ Running(informerFactories["default"])
    /\ ~ReadFactory("default").synced
    /\ upstream["default"] # {}
    /\ response = SuccessResponse("default", {}, StoreSource, FALSE)

\* C33: every response of the read endpoint is a success or an error; a
\* success carries the requested namespace ("default" when the query has
\* none) and a count equal to the number of its items; when the namespace
\* has no informer and the remote query fails, or the client is not
\* connected, the response is the error one, and a success without an
\* informer holds every Deployment the remote API lists.
C33_SuccessOrError ==
    [][\A q \in Queries :
          ListDeployments(QueryNamespace(q)) =>
              LET N == IF q \in Namespaces THEN q ELSE "default"
              IN /\ response'.status \in {"success", "error"}
                 /\ response'.status = "success" =>
                       /\ response'.namespace = N
                       /\ response'.count = Cardinality(response'.items)
                 /\ response'.status = "error" =>
                       response'.items = {} /\ response'.source = ""
                 /\ (~HasStore(N) /\ ~clientset) => response'.status = "error"
                 /\ (~HasStore(N) /\ response' = ListResponse(N, TRUE)) =>
                       response'.status = "error"
                 /\ (~HasStore(N) /\ response'.status = "success") =>
                       /\ clientset
                       /\ response'.items =
                              {DomainDeployment(o) : o \in upstream[N]}]_vars

\* C33 witness: a connected client without an informer for prod, whose
\* cluster holds a Deployment there, has answered a list of prod with the
\* error response after the remote query failed.
C33_Witness ==
    /\ clientset
    /\ ~HasStore("prod")
    /\ upstream["prod"] # {}
    /\ response.status = "error"
    /\ response.queried
    /\ response.items = {}

(***************************************************************************)
(* Claims about calls on a client that is not connected or has no handler  *)
(* (SpecClient).                                                           *)
(***************************************************************************)

\* What the calls of the claims leave alone: the factories, the registry,
\* the handler registrations and the events delivered.
ClientUntouched ==
    /\ factories' = factories
    /\ informerFactories' = informerFactories
    /\ subs' = subs
    /\ delivered' = delivered
    /\ call' = call
    /\ \A ns \in Namespaces :
          GetDeploymentInformer(ns)' = GetDeploymentInformer(ns)

\* C34: on a client that is not connected, InitializeInformers, and
\* WatchResources with a handler set, return the "not connected" error and
\* create, register and start no factory and register no handler; a
\* namespace without a store before the call has none after it.
C34_NotConnectedChangesNothing ==
    [][(/\ ~clientset
        /\ \/ \E nss \in SUBSET Namespaces :
                  InitializeInformers("background", nss)
           \/ /\ eventHandler
              /\ \E ctx \in {"background", "controller"} : WatchResources(ctx))
       => /\ returned' = "kubernetes client not connected"
          /\ ClientUntouched
          /\ \A ns \in Namespaces :
                GetDeploymentInformer(ns)'.err # "nil"
          /\ \A f \in 1..Len(factories') : ~factories'[f].handlers]_vars

\* C34 witness: a client with a handler that never connected has returned
\* the error, and no namespace has a store.
C34_Witness ==
    /\ ~clientset
    /\ eventHandler
    /\ returned = "kubernetes client not connected"
    /\ factories = <<>>
    /\ \A ns \in Namespaces : GetDeploymentInformer(ns).err # "nil"

\* C35: without an event handler WatchResources returns nil at once and
\* leaves the client as it was, connected or not; as long as no handler is
\* set, no factory has handlers registered and no event is delivered.
C35_NoHandlerNoWatch ==
    /\ [][(~eventHandler
            /\ \E ctx \in {"background", "controller"} : WatchResources(ctx))
           => /\ returned' = "nil"
              /\ ClientUntouched]_vars
    /\ [](~eventHandler =>
            /\ delivered = <<>>
            /\ \A f \in 1..Len(factories) : ~factories[f].handlers)

\* C35 witness: a connected client without a handler, whose cluster holds
\* a Deployment, has returned nil from WatchResources with no factory
\* created.
C35_Witness ==
    /\ clientset
    /\ ~eventHandler
    /\ returned = "nil"
    /\ factories = <<>>
    /\ upstream["default"] # {}
    /\ delivered = <<>>

(***************************************************************************)
(* Claims about KubernetesController.Stop (SpecWatch) and                  *)
(* ControllerRuntime.Stop (SpecStop).                                      *)
(***************************************************************************)

C38_StopClosesOnce ==
    /\ [](/\ stopping.closes <= 1
          /\ ~stopping.panicked
          /\ stopped <=> stopping.closes = 1
          /\ \A c \in StopCallers :
                (stopping.pc[c] = "idle" /\ stopping.calls[c] > 0) =>
                    (stopped /\ stopping.closes = 1))
    /\ [][stopped => stopped']_vars

\* C38 witness: one goroutine has returned from its second call, another
\* is back from the call that closed the channel or from one after it, and
\* a third waits for the mutex that a call in progress holds.
C38_Witness ==
    /\ stopped
    /\ stopping.closes = 1
    /\ \E c, d, e \in StopCallers :
          /\ c # d /\ d # e /\ c # e
          /\ stopping.calls[c] = 2 /\ stopping.pc[c] = "idle"
          /\ stopping.pc[d] = "lock"
          /\ stopping.mu = e

(***************************************************************************)
(* Claims about concurrent accesses to the registry (SpecRegistry).        *)
(***************************************************************************)

\* C21: a read of the registry never runs beside a write of it, no read
\* ends the process, and a read answered from a store returns whole
\* objects of that store.
C21_NoUnsynchronizedAccess ==
    /\ ~(access.writer # "none" /\ access.reader # "none")
    /\ ~access.raced
    /\ response.status # "fatal"
    /\ (response.status = "success" /\ response.source = StoreSource) =>
          \A i \in response.items :
              \E snap \in Snapshots :
                  i = DomainDeployment(Deployment(response.namespace, i.Name, snap))

(***************************************************************************)
(* Claims about the resync of the informers (SpecWatch).                   *)
(***************************************************************************)

RepeatedOn(id) ==
    /\ ReconcileAttempt(id)
    /\ rSeen[id]
    /\ rLast[id].fetch = "found"
    /\ rLast'[id].fetch = "found"

\* What an attempt leaves for the identity: the processed state, an empty
\* queue entry and the pending requeue.
LeftBy(attempt, applied) ==
    [applied |-> applied, queue |-> "none",
     timer |-> IF attempt.scheduled = <<>> THEN NoTimer
               ELSE attempt.scheduled[1]]

====
